---- MODULE Spec2Model ----
(***************************************************************************)
(* SystemChrono: 64-bit time extension, saturating arithmetic, elapsed     *)
(* timers and the Stopwatch (SystemChrono.cpp / SystemChrono.h).           *)
(*                                                                         *)
(* Width scaling.  TLC integers are 32-bit, so the program's 64-bit words  *)
(* are modelled with 31 bits: int64_t is the two's-complement range        *)
(* -2^30 .. 2^30-1, uint64_t is 0 .. 2^31-1, and the 32-bit hardware       *)
(* microsecond counter is TickBits wide.  Every operator below computes    *)
(* exactly what the C++ computes at that width; an intermediate value that *)
(* leaves the 32-bit range of TLC makes TLC stop with an error, so a       *)
(* signed overflow in modelled code cannot go unnoticed.                   *)
(*                                                                         *)
(* The formatter (formatTimeTo) is modelled at full width instead: its     *)
(* 64-bit operands are decimal digit strings, divided by long division, so *)
(* hour counts up to the one of INT64_MIN are rendered as the program      *)
(* renders them.  YourLib (YourLib.cpp) keeps its own scaled millisecond   *)
(* word, MsBits wide.                                                      *)
(***************************************************************************)
EXTENDS Integers, Sequences, FiniteSets, TLC

\* ------------------------------------------------------------------------
\* Bounds of the model
\* ------------------------------------------------------------------------
TickBits == 4      \* width of the hardware micros() counter (32 in the program)
MaxWraps == 2      \* hardware wraps followed by the clock specification
MaxNest == 1       \* interrupt nesting depth followed by the clock specification
MaxOps == 3        \* timer operations per behaviour of the elapsed specification
MaxAdvances == 2   \* mock-clock advances per behaviour of the elapsed specifications
MaxSwOps == 4      \* mutating Stopwatch calls per behaviour of the stopwatch specification
MsBits == 3        \* width of millis() and of YourLib's uint32_t members (32 in the program)

TickSpan == 2 ^ TickBits                 \* 1ULL << 32
MsSpan == 2 ^ MsBits                     \* 2^32
MsHalf == 2 ^ (MsBits - 1)               \* 2^31
LibHorizon == MsSpan + MsHalf             \* last true millisecond the YourLib specification reaches
MaxTime == (MaxWraps + 1) * TickSpan - 1 \* last true time the clock specification reaches

\* ------------------------------------------------------------------------
\* Word limits (scaled from 64 to 31 bits)
\* ------------------------------------------------------------------------
INT64_MIN_VALUE == -1073741824
INT64_MAX_VALUE == 1073741823
UINT64_MAX_VALUE == 2147483647

Int64 == INT64_MIN_VALUE .. INT64_MAX_VALUE

VARIABLES
  gnuc,        \* TRUE: __GNUC__/__clang__ build (overflow builtins); FALSE: portable branch
  platform,    \* "ESP32" (native wide counter) or "ARDUINO" (wrap-tracked counter)
  \* --- harness of the saturating primitives
  satOp, satA, satB, satRes,
  \* --- wrap-tracked clock: hardware, statics of micros64Impl, contexts
  hwTime,      \* true microseconds since boot when the hardware counter was last read
  last, high,  \* static uint32_t last; static uint64_t high
  intEnabled,  \* global interrupt enable flag
  depth,       \* running context: 0 = main loop, k > 0 = interrupt handler at nesting k
  pc,          \* per context: position inside micros64Impl
  nowv,        \* per context: local `now`
  full,        \* per context: local `full`
  \* --- history of the clock (observations only)
  polled,      \* the hardware counter has been read since boot
  gapOK,       \* every read so far came less than one wrap period after the previous read
  precOK,      \* gapOK, and the first read came less than one wrap period after boot
  lastRet,     \* the most recently composed result, as returned
  wrapped,     \* the most recent invocation added a wrap
  csEntries,   \* per context: interrupt flag on entry of its latest invocation
  \* --- elapsed helpers and auto-elapsed timers (single-threaded sketch code)
  timer,       \* the timer object: its type (kind) and its field _us
  hist,        \* the last operation on the timer: operation, value given, clock returned
               \* to it (for a copy, which reads no clock: the true time), baseline before it
  obs,         \* the most recent result handed to the sketch, with the clock value behind it
  nOps, nAdv,  \* operations and clock advances performed so far
  copy,        \* a second timer object, made from `timer` by copying
  \* --- Stopwatch (single-threaded sketch code)
  sw,          \* the Stopwatch object: _startUs, _totalUs, _running
  swHist,      \* the last mutating call on it: method, object before, clock returned to it
  ran,         \* true clock time spent running since the last start() / reset()
  fresh,       \* neither start() nor resume() has been called since construction
  nSw,         \* mutating Stopwatch calls performed so far
  \* --- formatTimeTo: one call and what it left
  fmtArg,      \* microsSinceBoot: sign and magnitude (decimal digits)
  fmtNull,     \* out == nullptr
  fmtLen,      \* outLen
  fmtFail,     \* the C library's snprintf reports an error on this call
  fmtBuf,      \* the caller's array: the outLen bytes handed over, then guard bytes
  fmtStatus,   \* the Status returned ("none" before the call)
  \* --- YourLib: one object, its LED pin and the sketch around it
  lib,         \* config, _initialized, _nextMs, _tickCount, _lastTickMs
  led,         \* the GPIO pin config.ledPin names: configured as output, level
  msTime,      \* true milliseconds since boot (millis() is its low word)
  libHist,     \* the last YourLib call: op, the call before it, the intervalMs
               \* handed to begin(), Status, whether tick() acted, and the true
               \* time passed at the call since the action before it (-1: no
               \* action since begin() succeeded)
  lastAct      \* true time of the last action since begin() succeeded (-1: none)

pollHist == <<polled, gapOK, precOK>>
clockVars == <<hwTime, last, high, intEnabled, depth, pc, nowv, full,
               polled, gapOK, precOK, lastRet, wrapped, csEntries>>
satVars == <<satOp, satA, satB, satRes>>
buildVars == <<gnuc, platform>>
elapsedVars == <<timer, hist, obs, nOps, nAdv>>
copyVars == <<copy>>
stopwatchVars == <<sw, swHist, ran, fresh, nSw>>
objectVars == <<copyVars, stopwatchVars>>
formatVars == <<fmtArg, fmtNull, fmtLen, fmtFail, fmtBuf, fmtStatus>>
chronoVars == <<buildVars, satVars, clockVars, elapsedVars, objectVars>>
libVars == <<lib, led, msTime, libHist, lastAct>>
vars == <<chronoVars, formatVars, libVars>>

\* ------------------------------------------------------------------------
\* C++ integer helpers
\* ------------------------------------------------------------------------
Abs(x) == IF x < 0 THEN -x ELSE x

\* C++ signed division: truncation toward zero (divisor non-zero)
TruncDiv(a, b) ==
  IF (a < 0) = (b < 0) THEN Abs(a) \div Abs(b) ELSE -(Abs(a) \div Abs(b))

\* Exact (infinite-precision) product of two words as top * 2^30 + lo,
\* by long multiplication on half-words, with the sign kept apart.
HalfBase == 2 ^ 15
WideMul(a, b) ==
  LET x == Abs(a)
      y == Abs(b)
      x1 == x \div HalfBase
      x0 == x % HalfBase
      y1 == y \div HalfBase
      y0 == y % HalfBase
      cross == x1 * y0 + x0 * y1
      low == (cross % HalfBase) * HalfBase + x0 * y0
      square == HalfBase * HalfBase
  IN [top |-> x1 * y1 + (cross \div HalfBase) + (low \div square),
      lo |-> low % square,
      neg |-> ((a < 0) # (b < 0)) /\ a # 0 /\ b # 0]

\* the exact product is representable as int64_t
MulFits(a, b) ==
  LET w == WideMul(a, b)
  IN w.top = 0 \/ (w.neg /\ w.top = 1 /\ w.lo = 0)

\* __builtin_add_overflow / __builtin_sub_overflow / __builtin_mul_overflow:
\* TRUE iff the infinite-precision result does not fit int64_t
builtin_add_overflow(lhs, rhs) == (lhs + rhs) \notin Int64
builtin_sub_overflow(lhs, rhs) == (lhs - rhs) \notin Int64
builtin_mul_overflow(lhs, rhs) == ~MulFits(lhs, rhs)

\* ------------------------------------------------------------------------
\* Saturating arithmetic
\* ------------------------------------------------------------------------
saturatingAddBuiltin(lhs, rhs) ==
  IF ~builtin_add_overflow(lhs, rhs) THEN lhs + rhs
  ELSE IF rhs >= 0 THEN INT64_MAX_VALUE ELSE INT64_MIN_VALUE

saturatingAddPortable(lhs, rhs) ==
  IF (rhs > 0) /\ (lhs > (INT64_MAX_VALUE - rhs)) THEN INT64_MAX_VALUE
  ELSE IF (rhs < 0) /\ (lhs < (INT64_MIN_VALUE - rhs)) THEN INT64_MIN_VALUE
  ELSE lhs + rhs

saturatingAdd_wrongSide(lhs, rhs) ==
  IF ~builtin_add_overflow(lhs, rhs) THEN lhs + rhs
  ELSE IF rhs >= 0 THEN INT64_MIN_VALUE ELSE INT64_MAX_VALUE

saturatingAdd(lhs, rhs) ==
  IF gnuc THEN saturatingAddBuiltin(lhs, rhs) ELSE saturatingAddPortable(lhs, rhs)

saturatingSubBuiltin(lhs, rhs) ==
  IF ~builtin_sub_overflow(lhs, rhs) THEN lhs - rhs
  ELSE IF rhs >= 0 THEN INT64_MIN_VALUE ELSE INT64_MAX_VALUE

saturatingSubPortable(lhs, rhs) ==
  IF (rhs > 0) /\ (lhs < (INT64_MIN_VALUE + rhs)) THEN INT64_MIN_VALUE
  ELSE IF (rhs < 0) /\ (lhs > (INT64_MAX_VALUE + rhs)) THEN INT64_MAX_VALUE
  ELSE lhs - rhs

saturatingSub_clampLikeAdd(lhs, rhs) ==
  IF ~builtin_sub_overflow(lhs, rhs) THEN lhs - rhs
  ELSE IF rhs >= 0 THEN INT64_MAX_VALUE ELSE INT64_MIN_VALUE

saturatingSub(lhs, rhs) ==
  IF gnuc THEN saturatingSubBuiltin(lhs, rhs) ELSE saturatingSubPortable(lhs, rhs)

saturatingMulBuiltin(lhs, rhs) ==
  IF ~builtin_mul_overflow(lhs, rhs) THEN lhs * rhs
  ELSE LET sameSign == (lhs < 0) = (rhs < 0)
       IN IF sameSign THEN INT64_MAX_VALUE ELSE INT64_MIN_VALUE

saturatingMulPortable_lessEq(lhs, rhs) ==
  IF (lhs = 0) \/ (rhs = 0) THEN 0
  ELSE IF (lhs = -1) /\ (rhs = INT64_MIN_VALUE) THEN INT64_MAX_VALUE
  ELSE IF (rhs = -1) /\ (lhs = INT64_MIN_VALUE) THEN INT64_MAX_VALUE
  ELSE IF lhs > 0 /\ rhs > 0 /\ lhs >= TruncDiv(INT64_MAX_VALUE, rhs) THEN INT64_MAX_VALUE
  ELSE IF lhs > 0 /\ ~(rhs > 0) /\ rhs <= TruncDiv(INT64_MIN_VALUE, lhs) THEN INT64_MIN_VALUE
  ELSE IF ~(lhs > 0) /\ rhs > 0 /\ lhs <= TruncDiv(INT64_MIN_VALUE, rhs) THEN INT64_MIN_VALUE
  ELSE IF ~(lhs > 0) /\ ~(rhs > 0) /\ lhs <= TruncDiv(INT64_MAX_VALUE, rhs) THEN INT64_MAX_VALUE
  ELSE lhs * rhs

saturatingMulPortable(lhs, rhs) ==
  IF (lhs = 0) \/ (rhs = 0) THEN 0
  ELSE IF (lhs = -1) /\ (rhs = INT64_MIN_VALUE) THEN INT64_MAX_VALUE
  ELSE IF (rhs = -1) /\ (lhs = INT64_MIN_VALUE) THEN INT64_MAX_VALUE
  ELSE IF lhs > 0 /\ rhs > 0 /\ lhs > TruncDiv(INT64_MAX_VALUE, rhs) THEN INT64_MAX_VALUE
  ELSE IF lhs > 0 /\ ~(rhs > 0) /\ rhs < TruncDiv(INT64_MIN_VALUE, lhs) THEN INT64_MIN_VALUE
  ELSE IF ~(lhs > 0) /\ rhs > 0 /\ lhs < TruncDiv(INT64_MIN_VALUE, rhs) THEN INT64_MIN_VALUE
  ELSE IF ~(lhs > 0) /\ ~(rhs > 0) /\ lhs < TruncDiv(INT64_MAX_VALUE, rhs) THEN INT64_MAX_VALUE
  ELSE lhs * rhs

saturatingMul_clampMax(lhs, rhs) ==
  IF ~builtin_mul_overflow(lhs, rhs) THEN lhs * rhs ELSE INT64_MAX_VALUE

saturatingMul(lhs, rhs) ==
  IF gnuc THEN saturatingMulBuiltin(lhs, rhs) ELSE saturatingMulPortable(lhs, rhs)

\* The signed expressions the portable branches evaluate for one pair, as the
\* values they would have in unbounded arithmetic.  && short-circuits, so a
\* bound such as INT64_MAX_VALUE - rhs is computed only when its sign test
\* passed, and a later statement only when no earlier one returned.
saturatingAddPortableEvals(lhs, rhs) ==
  LET first == (rhs > 0) /\ (lhs > (INT64_MAX_VALUE - rhs))
      second == (rhs < 0) /\ (lhs < (INT64_MIN_VALUE - rhs))
  IN (IF rhs > 0 THEN {INT64_MAX_VALUE - rhs} ELSE {})
     \cup (IF ~first /\ rhs < 0 THEN {INT64_MIN_VALUE - rhs} ELSE {})
     \cup (IF ~first /\ ~second THEN {lhs + rhs} ELSE {})

saturatingSubPortableEvals(lhs, rhs) ==
  LET first == (rhs > 0) /\ (lhs < (INT64_MIN_VALUE + rhs))
      second == (rhs < 0) /\ (lhs > (INT64_MAX_VALUE + rhs))
  IN (IF rhs > 0 THEN {INT64_MIN_VALUE + rhs} ELSE {})
     \cup (IF ~first /\ rhs < 0 THEN {INT64_MAX_VALUE + rhs} ELSE {})
     \cup (IF ~first /\ ~second THEN {lhs - rhs} ELSE {})

\* The one division <<dividend, divisor>> the portable multiplication
\* performs, if it gets past its three early returns.
saturatingMulPortableDivs(lhs, rhs) ==
  IF (lhs = 0) \/ (rhs = 0) THEN {}
  ELSE IF (lhs = -1) /\ (rhs = INT64_MIN_VALUE) THEN {}
  ELSE IF (rhs = -1) /\ (lhs = INT64_MIN_VALUE) THEN {}
  ELSE IF lhs > 0
       THEN IF rhs > 0 THEN {<<INT64_MAX_VALUE, rhs>>} ELSE {<<INT64_MIN_VALUE, lhs>>}
       ELSE IF rhs > 0 THEN {<<INT64_MIN_VALUE, rhs>>} ELSE {<<INT64_MAX_VALUE, rhs>>}

\* The product is evaluated only when the pre-check of the taken branch
\* did not return.
saturatingMulPortableEvals(lhs, rhs) ==
  LET divs == saturatingMulPortableDivs(lhs, rhs)
      returned ==
        \/ lhs > 0 /\ rhs > 0 /\ lhs > TruncDiv(INT64_MAX_VALUE, rhs)
        \/ lhs > 0 /\ ~(rhs > 0) /\ rhs < TruncDiv(INT64_MIN_VALUE, lhs)
        \/ ~(lhs > 0) /\ rhs > 0 /\ lhs < TruncDiv(INT64_MIN_VALUE, rhs)
        \/ ~(lhs > 0) /\ ~(rhs > 0) /\ lhs < TruncDiv(INT64_MAX_VALUE, rhs)
  IN IF divs = {} THEN {}
     ELSE IF returned THEN {} ELSE {lhs * rhs}

\* ------------------------------------------------------------------------
\* Harness of the saturating primitives: one application to a drawn pair
\* ------------------------------------------------------------------------
SatInputs ==
  {INT64_MIN_VALUE, INT64_MIN_VALUE + 1, INT64_MIN_VALUE + 2,
   -536870913, -536870912, -1073742, -1073741, -1000000, -32769, -32768, -32767,
   -1074, -1073, -1000, -3, -2, -1, 0, 1, 2, 3, 1000, 1073, 1074,
   32767, 32768, 32769, 1000000, 1073741, 1073742, 536870911, 536870912,
   INT64_MAX_VALUE - 1, INT64_MAX_VALUE}

SatIdle == satOp = "none" /\ satA = 0 /\ satB = 0 /\ satRes = 0

ApplyAdd ==
  /\ satOp = "none"
  /\ satOp' = "add"
  /\ satRes' = saturatingAdd(satA, satB)
  /\ UNCHANGED <<formatVars, libVars, satA, satB, buildVars, clockVars, elapsedVars, objectVars>>

ApplySub ==
  /\ satOp = "none"
  /\ satOp' = "sub"
  /\ satRes' = saturatingSub(satA, satB)
  /\ UNCHANGED <<formatVars, libVars, satA, satB, buildVars, clockVars, elapsedVars, objectVars>>

ApplyMul ==
  /\ satOp = "none"
  /\ satOp' = "mul"
  /\ satRes' = saturatingMul(satA, satB)
  /\ UNCHANGED <<formatVars, libVars, satA, satB, buildVars, clockVars, elapsedVars, objectVars>>

\* ------------------------------------------------------------------------
\* Platform microsecond source (micros64Impl)
\* ------------------------------------------------------------------------
Contexts == 0 .. MaxNest

\* static_cast<uint32_t>(micros()): the hardware counter, TickBits wide
micros == hwTime % TickSpan

\* esp_timer_get_time(): native wide counter
esp_timer_get_time == hwTime

\* high += (1ULL << 32) on uint64_t
AddWrap_allOnes(h) == h + (TickSpan - 1)

\* the increment one bit short: high += (1ULL << 31)
AddWrap_halfSpan(h) == h + TickSpan \div 2

AddWrap(h) ==
  IF h > UINT64_MAX_VALUE - TickSpan
  THEN (h - (UINT64_MAX_VALUE - TickSpan)) - 1
  ELSE h + TickSpan

\* bitwise OR of two unsigned words
RECURSIVE BitOr(_, _)
BitOr(a, b) ==
  IF a = 0 THEN b
  ELSE IF b = 0 THEN a
  ELSE (IF a % 2 = 1 \/ b % 2 = 1 THEN 1 ELSE 0) + 2 * BitOr(a \div 2, b \div 2)

\* static_cast<int64_t>(uint64_t)
ToInt64(u) == IF u > INT64_MAX_VALUE THEN (u - UINT64_MAX_VALUE) - 1 ELSE u

\* if (now < last) high += (1ULL << 32);
WrapHigh_never(now, l, h) == h

\* only a drop of more than half the counter's range counted as a wrap
WrapHigh_bigDrop(now, l, h) ==
  IF l - now > TickSpan \div 2 THEN AddWrap(h) ELSE h

WrapHigh_lessEq(now, l, h) == IF now <= l THEN AddWrap(h) ELSE h

WrapHigh(now, l, h) == IF now < l THEN AddWrap(h) ELSE h

\* uint64_t full = high | static_cast<uint64_t>(now);
Compose(h, now) == BitOr(h, now)

ClockBoot ==
  /\ hwTime = 0
  /\ last = 0
  /\ high = 0
  /\ intEnabled = TRUE
  /\ depth = 0
  /\ pc = [c \in Contexts |-> "idle"]
  /\ nowv = [c \in Contexts |-> 0]
  /\ full = [c \in Contexts |-> 0]
  /\ polled = FALSE
  /\ gapOK = TRUE
  /\ precOK = TRUE
  /\ lastRet = 0
  /\ wrapped = FALSE
  /\ csEntries = [c \in Contexts |-> TRUE]

\* noInterrupts();
NoInterruptsMasks_none == intEnabled

NoInterruptsMasks == FALSE

StepNoInterrupts(c) ==
  /\ depth = c /\ pc[c] = "idle"
  /\ csEntries' = [csEntries EXCEPT ![c] = intEnabled]
  /\ intEnabled' = NoInterruptsMasks
  /\ pc' = [pc EXCEPT ![c] = "read"]
  /\ UNCHANGED <<hwTime, last, high, depth, nowv, full, pollHist, lastRet, wrapped>>
  /\ UNCHANGED <<formatVars, libVars, buildVars, satVars, objectVars, elapsedVars>>

\* uint32_t now = static_cast<uint32_t>(micros());
\* d microseconds have passed on the hardware timer since the counter was
\* last read (since boot, for the first read); the timer counts on whatever
\* the processor does, and its value shows only here.
StepRead(c, d) ==
  /\ depth = c /\ pc[c] = "read"
  /\ hwTime + d <= MaxTime
  /\ hwTime' = hwTime + d
  /\ nowv' = [nowv EXCEPT ![c] = (hwTime + d) % TickSpan]
  /\ polled' = TRUE
  /\ gapOK' = (gapOK /\ (polled => d < TickSpan))
  /\ precOK' = (precOK /\ d < TickSpan)
  /\ pc' = [pc EXCEPT ![c] = "compare"]
  /\ UNCHANGED <<last, high, intEnabled, depth, full, lastRet, wrapped, csEntries>>
  /\ UNCHANGED <<formatVars, libVars, buildVars, satVars, objectVars, elapsedVars>>

\* if (now < last) { high += (1ULL << 32); }
StepCompare(c) ==
  /\ depth = c /\ pc[c] = "compare"
  /\ high' = WrapHigh(nowv[c], last, high)
  /\ wrapped' = (high' # high)
  /\ pc' = [pc EXCEPT ![c] = "store"]
  /\ UNCHANGED <<hwTime, last, intEnabled, depth, nowv, full, pollHist, lastRet, csEntries>>
  /\ UNCHANGED <<formatVars, libVars, buildVars, satVars, objectVars, elapsedVars>>

\* last = now;
StepStore(c) ==
  /\ depth = c /\ pc[c] = "store"
  /\ last' = nowv[c]
  /\ pc' = [pc EXCEPT ![c] = "compose"]
  /\ UNCHANGED <<hwTime, high, intEnabled, depth, nowv, full, pollHist, lastRet,
                 wrapped, csEntries>>
  /\ UNCHANGED <<formatVars, libVars, buildVars, satVars, objectVars, elapsedVars>>

\* uint64_t full = high | static_cast<uint64_t>(now);
StepCompose(c) ==
  /\ depth = c /\ pc[c] = "compose"
  /\ full' = [full EXCEPT ![c] = Compose(high, nowv[c])]
  /\ lastRet' = ToInt64(full'[c])
  /\ pc' = [pc EXCEPT ![c] = "interrupts"]
  /\ UNCHANGED <<hwTime, last, high, intEnabled, depth, nowv, pollHist, wrapped, csEntries>>
  /\ UNCHANGED <<formatVars, libVars, buildVars, satVars, objectVars, elapsedVars>>

\* the critical section closed by restoring the flag saved on entry
interrupts_restoring(entry) == entry

\* interrupts(): the global interrupt flag afterwards, whatever it was when
\* the invocation was entered
interrupts(entry) == TRUE

\* interrupts(); return static_cast<int64_t>(full);
\* The main loop is back in the sketch; a handler has only its own return left.
StepInterrupts(c) ==
  /\ depth = c /\ pc[c] = "interrupts"
  /\ intEnabled' = interrupts(csEntries[c])
  /\ pc' = [pc EXCEPT ![c] = IF c = 0 THEN "idle" ELSE "return"]
  /\ nowv' = [nowv EXCEPT ![c] = 0]
  /\ full' = [full EXCEPT ![c] = 0]
  /\ wrapped' = FALSE
  /\ UNCHANGED <<hwTime, last, high, depth, pollHist, lastRet, csEntries>>
  /\ UNCHANGED <<formatVars, libVars, buildVars, satVars, objectVars, elapsedVars>>

\* An interrupt is taken by the running context; its handler calls micros64().
\* The hardware either masks interrupts on entry (AVR) or leaves the global
\* flag alone (Cortex-M).
IsrEnter ==
  /\ intEnabled /\ depth < MaxNest
  /\ depth' = depth + 1
  /\ \E masked \in BOOLEAN : intEnabled' = ~masked
  /\ pc' = [pc EXCEPT ![depth + 1] = "idle"]
  /\ UNCHANGED <<hwTime, last, high, nowv, full, pollHist, lastRet, wrapped, csEntries>>
  /\ UNCHANGED <<formatVars, libVars, buildVars, satVars, objectVars, elapsedVars>>

\* The handler returns to the interrupted context, which had interrupts enabled.
IsrReturn ==
  /\ depth > 0 /\ pc[depth] = "return"
  /\ depth' = depth - 1
  /\ intEnabled' = TRUE
  /\ pc' = [pc EXCEPT ![depth] = "idle"]
  /\ csEntries' = [csEntries EXCEPT ![depth] = TRUE]
  /\ UNCHANGED <<hwTime, last, high, nowv, full, pollHist, lastRet, wrapped>>
  /\ UNCHANGED <<formatVars, libVars, buildVars, satVars, objectVars, elapsedVars>>

\* The sketch opens or closes a critical section of its own around its calls.
SketchNoInterrupts ==
  /\ depth = 0 /\ pc[0] = "idle" /\ intEnabled
  /\ intEnabled' = FALSE
  /\ UNCHANGED <<hwTime, last, high, depth, pc, nowv, full, pollHist, lastRet,
                 wrapped, csEntries>>
  /\ UNCHANGED <<formatVars, libVars, buildVars, satVars, objectVars, elapsedVars>>

SketchInterrupts ==
  /\ depth = 0 /\ pc[0] = "idle" /\ ~intEnabled
  /\ intEnabled' = TRUE
  /\ UNCHANGED <<hwTime, last, high, depth, pc, nowv, full, pollHist, lastRet,
                 wrapped, csEntries>>
  /\ UNCHANGED <<formatVars, libVars, buildVars, satVars, objectVars, elapsedVars>>

\* ------------------------------------------------------------------------
\* micros64Impl as one step (sketch code outside interrupt handlers), from
\* the statics l = last, h = high: the value returned and the statics left
\* ------------------------------------------------------------------------
micros64Impl(l, h) ==
  IF platform = "ESP32"
  THEN [ret |-> esp_timer_get_time, last |-> l, high |-> h]
  ELSE LET now == micros
           h2 == WrapHigh(now, l, h)
       IN [ret |-> ToInt64(Compose(h2, now)), last |-> now, high |-> h2]

\* the statics after a call that returned m; the history variables of the
\* interrupt-level specification are not maintained here
ClockCalled(m) ==
  /\ last' = m.last
  /\ high' = m.high
  /\ UNCHANGED <<hwTime, intEnabled, depth, pc, nowv, full,
                 pollHist, lastRet, wrapped, csEntries>>

\* Public accessors, on the value micros64Impl returned
micros64(m) == m.ret
millis64(m) == TruncDiv(m.ret, 1000)
seconds64(m) == TruncDiv(m.ret, 1000000)

\* two's-complement wrap of a difference, as plain `now - start` would give
microsSince_wrapping(m, startUs) ==
  LET d == m.ret - startUs
  IN IF d > INT64_MAX_VALUE THEN (d - UINT64_MAX_VALUE) - 1
     ELSE IF d < INT64_MIN_VALUE THEN (d + UINT64_MAX_VALUE) + 1
     ELSE d

microsSince(m, startUs) == saturatingSub(m.ret, startUs)
millisSince(m, startMs) == saturatingSub(millis64(m), startMs)
secondsSince(m, startS) == saturatingSub(seconds64(m), startS)

\* the product as a plain `a * b` leaves it: the low word of the exact
\* product, read as two's complement
WrappingMul(a, b) ==
  LET w == WideMul(a, b)
      u == (w.top % 2) * (INT64_MAX_VALUE + 1) + w.lo
      n == IF w.neg /\ u # 0 THEN (UINT64_MAX_VALUE - u) + 1 ELSE u
  IN IF n > INT64_MAX_VALUE THEN (n - UINT64_MAX_VALUE) - 1 ELSE n

millisToMicrosSaturated_wrapping(valueMs) == WrappingMul(valueMs, 1000)

millisToMicrosSaturated(valueMs) == saturatingMul(valueMs, 1000)
secondsToMicrosSaturated(valueS) == saturatingMul(valueS, 1000000)

\* ------------------------------------------------------------------------
\* ElapsedMicros64 / ElapsedMillis64 / ElapsedSeconds64
\* ------------------------------------------------------------------------
Kinds == {"micros", "millis", "seconds"}

\* explicit Elapsed*64(int64_t val): _us from the clock value now
ElapsedCtor_noScale(k, val, now) == saturatingSub(now, val)

ElapsedCtor(k, val, now) ==
  CASE k = "micros" -> saturatingSub(now, val)
    [] k = "millis" -> saturatingSub(now, millisToMicrosSaturated(val))
    [] k = "seconds" -> saturatingSub(now, secondsToMicrosSaturated(val))

\* operator int64_t() const with a quotient rounded toward minus infinity
ElapsedRead_floor(k, us, now) ==
  CASE k = "micros" -> saturatingSub(now, us)
    [] k = "millis" -> saturatingSub(now, us) \div 1000
    [] k = "seconds" -> saturatingSub(now, us) \div 1000000

\* operator int64_t() const
ElapsedRead(k, us, now) ==
  CASE k = "micros" -> saturatingSub(now, us)
    [] k = "millis" -> TruncDiv(saturatingSub(now, us), 1000)
    [] k = "seconds" -> TruncDiv(saturatingSub(now, us), 1000000)

\* operator=(int64_t val)
ElapsedAssign_noScale(k, val, now) == saturatingSub(now, val)

ElapsedAssign(k, val, now) ==
  CASE k = "micros" -> saturatingSub(now, val)
    [] k = "millis" -> saturatingSub(now, millisToMicrosSaturated(val))
    [] k = "seconds" -> saturatingSub(now, secondsToMicrosSaturated(val))

\* operator-=(int64_t val)
ElapsedMinusAssign(k, us, val) ==
  CASE k = "micros" -> saturatingAdd(us, val)
    [] k = "millis" -> saturatingAdd(us, millisToMicrosSaturated(val))
    [] k = "seconds" -> saturatingAdd(us, secondsToMicrosSaturated(val))

\* operator+= written like operator-= (saturatingAdd)
ElapsedPlusAssign_adds(k, us, val) == ElapsedMinusAssign(k, us, val)

\* operator+=(int64_t val)
ElapsedPlusAssign(k, us, val) ==
  CASE k = "micros" -> saturatingSub(us, val)
    [] k = "millis" -> saturatingSub(us, millisToMicrosSaturated(val))
    [] k = "seconds" -> saturatingSub(us, secondsToMicrosSaturated(val))

NoObs == [what |-> "none", arg |-> 0, clock |-> 0, val |-> 0]
NoHist == [op |-> "none", v |-> 0, at |-> 0, was |-> 0]

ElapsedIdle ==
  /\ timer = [kind |-> "none", us |-> 0]
  /\ hist = NoHist
  /\ obs = NoObs
  /\ nOps = 0
  /\ nAdv = 0

\* values handed to constructors and assignments
TimerValues == {0, 1, -1, INT64_MAX_VALUE, INT64_MIN_VALUE}
\* amounts handed to += / -=: one unit either way, and one that saturates
ShiftValues == {1, -1, INT64_MAX_VALUE}
\* start timestamps handed to the *Since helpers
SinceStarts == {0, 1, 1000, 1500, 1500000, 3000001, -1, INT64_MAX_VALUE, INT64_MIN_VALUE}
\* microseconds by which the mock clock is advanced: just under a wrap
\* period of the hardware counter (a fraction of a millisecond), a second
\* and a half
ClockSteps == {TickSpan - 1, 1500000}

AdvanceClock(t) ==
  /\ nAdv < MaxAdvances
  /\ nAdv' = nAdv + 1
  /\ hwTime' = hwTime + t
  /\ ran' = IF sw.running THEN ran + t ELSE ran
  /\ obs' = NoObs
  /\ UNCHANGED <<last, high, intEnabled, depth, pc, nowv, full,
                 pollHist, lastRet, wrapped, csEntries>>
  /\ UNCHANGED <<formatVars, libVars, buildVars, satVars, timer, hist, nOps, copyVars, sw, swHist, fresh, nSw>>

\* Elapsed*64 t;  (default constructor: _us = micros64Impl())
ConstructDefault(k) ==
  /\ timer.kind \in {"none", k}
  /\ nOps < MaxOps
  /\ nOps' = nOps + 1
  /\ LET m == micros64Impl(last, high)
     IN /\ timer' = [kind |-> k, us |-> m.ret]
        /\ hist' = [op |-> "ctor", v |-> 0, at |-> m.ret, was |-> 0]
        /\ ClockCalled(m)
  /\ obs' = NoObs
  /\ UNCHANGED <<formatVars, libVars, buildVars, satVars, objectVars, nAdv>>

\* Elapsed*64 t(val);
Construct(k, val) ==
  /\ timer.kind \in {"none", k}
  /\ nOps < MaxOps
  /\ nOps' = nOps + 1
  /\ LET m == micros64Impl(last, high)
     IN /\ timer' = [kind |-> k, us |-> ElapsedCtor(k, val, m.ret)]
        /\ hist' = [op |-> "ctor", v |-> val, at |-> m.ret, was |-> 0]
        /\ ClockCalled(m)
  /\ obs' = NoObs
  /\ UNCHANGED <<formatVars, libVars, buildVars, satVars, objectVars, nAdv>>

\* t = val;
AssignInt(val) ==
  /\ timer.kind \in Kinds
  /\ nOps < MaxOps
  /\ nOps' = nOps + 1
  /\ LET m == micros64Impl(last, high)
     IN /\ timer' = [timer EXCEPT !.us = ElapsedAssign(timer.kind, val, m.ret)]
        /\ hist' = [op |-> "assign", v |-> val, at |-> m.ret, was |-> 0]
        /\ ClockCalled(m)
  /\ obs' = NoObs
  /\ UNCHANGED <<formatVars, libVars, buildVars, satVars, objectVars, nAdv>>

\* t += val;
PlusAssign(val) ==
  /\ timer.kind \in Kinds
  /\ nOps < MaxOps
  /\ nOps' = nOps + 1
  /\ timer' = [timer EXCEPT !.us = ElapsedPlusAssign(timer.kind, timer.us, val)]
  /\ hist' = [op |-> "plus", v |-> val, at |-> 0, was |-> timer.us]
  /\ obs' = NoObs
  /\ UNCHANGED <<formatVars, libVars, buildVars, satVars, objectVars, clockVars, nAdv>>

\* t -= val;
MinusAssign(val) ==
  /\ timer.kind \in Kinds
  /\ nOps < MaxOps
  /\ nOps' = nOps + 1
  /\ timer' = [timer EXCEPT !.us = ElapsedMinusAssign(timer.kind, timer.us, val)]
  /\ hist' = [op |-> "minus", v |-> val, at |-> 0, was |-> timer.us]
  /\ obs' = NoObs
  /\ UNCHANGED <<formatVars, libVars, buildVars, satVars, objectVars, clockVars, nAdv>>

\* int64_t x = t;
ReadTimer ==
  /\ timer.kind \in Kinds
  /\ LET m == micros64Impl(last, high)
     IN /\ obs' = [what |-> "read", arg |-> 0, clock |-> m.ret,
                   val |-> ElapsedRead(timer.kind, timer.us, m.ret)]
        /\ ClockCalled(m)
  /\ UNCHANGED <<formatVars, libVars, buildVars, satVars, objectVars, timer, hist, nOps, nAdv>>

\* x = microsSince(start); x = millisSince(start); x = secondsSince(start);
CallMicrosSince(start) ==
  /\ LET m == micros64Impl(last, high)
     IN /\ obs' = [what |-> "microsSince", arg |-> start, clock |-> m.ret,
                   val |-> microsSince(m, start)]
        /\ ClockCalled(m)
  /\ UNCHANGED <<formatVars, libVars, buildVars, satVars, objectVars, timer, hist, nOps, nAdv>>

CallMillisSince(start) ==
  /\ LET m == micros64Impl(last, high)
     IN /\ obs' = [what |-> "millisSince", arg |-> start, clock |-> m.ret,
                   val |-> millisSince(m, start)]
        /\ ClockCalled(m)
  /\ UNCHANGED <<formatVars, libVars, buildVars, satVars, objectVars, timer, hist, nOps, nAdv>>

CallSecondsSince(start) ==
  /\ LET m == micros64Impl(last, high)
     IN /\ obs' = [what |-> "secondsSince", arg |-> start, clock |-> m.ret,
                   val |-> secondsSince(m, start)]
        /\ ClockCalled(m)
  /\ UNCHANGED <<formatVars, libVars, buildVars, satVars, objectVars, timer, hist, nOps, nAdv>>

\* x = millis64(); x = seconds64();
CallMillis64 ==
  /\ LET m == micros64Impl(last, high)
     IN /\ obs' = [what |-> "millis64", arg |-> 0, clock |-> m.ret,
                   val |-> millis64(m)]
        /\ ClockCalled(m)
  /\ UNCHANGED <<formatVars, libVars, buildVars, satVars, objectVars, timer, hist, nOps, nAdv>>

CallSeconds64 ==
  /\ LET m == micros64Impl(last, high)
     IN /\ obs' = [what |-> "seconds64", arg |-> 0, clock |-> m.ret,
                   val |-> seconds64(m)]
        /\ ClockCalled(m)
  /\ UNCHANGED <<formatVars, libVars, buildVars, satVars, objectVars, timer, hist, nOps, nAdv>>

\* x = microsSince(micros64());  two reads of the clock, no advance between
CallMicrosSinceNow ==
  /\ LET m1 == micros64Impl(last, high)
         m2 == micros64Impl(m1.last, m1.high)
     IN /\ obs' = [what |-> "sinceNow", arg |-> micros64(m1), clock |-> m2.ret,
                   val |-> microsSince(m2, micros64(m1))]
        /\ ClockCalled(m2)
  /\ UNCHANGED <<formatVars, libVars, buildVars, satVars, objectVars, timer, hist, nOps, nAdv>>

\* ------------------------------------------------------------------------
\* Copies of a timer
\* ------------------------------------------------------------------------
\* Elapsed*64(const Elapsed*64& orig): the baseline is the clock at the copy
ElapsedCopyCtor_restart(orig) ==
  [kind |-> orig.kind, us |-> micros64Impl(last, high).ret]

\* Elapsed*64(const Elapsed*64& orig) { _us = orig._us; }
ElapsedCopyCtor(orig) == [kind |-> orig.kind, us |-> orig.us]

\* operator=(const Elapsed*64& rhs) { _us = rhs._us; return *this; }
ElapsedCopyAssign(self, rhs) == [self EXCEPT !.us = rhs.us]

CopyIdle == copy = [kind |-> "none", us |-> 0]

\* Elapsed*64 c(t);
CopyConstruct ==
  /\ timer.kind \in Kinds
  /\ copy.kind = "none"
  /\ copy' = ElapsedCopyCtor(timer)
  /\ hist' = [op |-> "copy", v |-> 0, at |-> hwTime, was |-> timer.us]
  /\ obs' = NoObs
  /\ UNCHANGED <<formatVars, libVars, buildVars, satVars, clockVars, stopwatchVars, timer, nOps, nAdv>>

\* c = t;
CopyAssign ==
  /\ timer.kind \in Kinds
  /\ copy.kind = timer.kind
  /\ nOps < MaxOps
  /\ nOps' = nOps + 1
  /\ copy' = ElapsedCopyAssign(copy, timer)
  /\ hist' = [op |-> "copy", v |-> 0, at |-> hwTime, was |-> timer.us]
  /\ obs' = NoObs
  /\ UNCHANGED <<formatVars, libVars, buildVars, satVars, clockVars, stopwatchVars, timer, nAdv>>

\* c += val;
CopyPlusAssign(val) ==
  /\ copy.kind \in Kinds
  /\ nOps < MaxOps
  /\ nOps' = nOps + 1
  /\ copy' = [copy EXCEPT !.us = ElapsedPlusAssign(copy.kind, copy.us, val)]
  /\ hist' = [op |-> "plusCopy", v |-> val, at |-> 0, was |-> copy.us]
  /\ obs' = NoObs
  /\ UNCHANGED <<formatVars, libVars, buildVars, satVars, clockVars, stopwatchVars, timer, nAdv>>

\* operator-(int64_t val) const: the timer returned
ElapsedMinus(self, val) ==
  LET r == ElapsedCopyCtor(self)
  IN CASE self.kind = "micros" -> [r EXCEPT !.us = saturatingAdd(r.us, val)]
       [] self.kind = "millis" ->
            [r EXCEPT !.us = saturatingAdd(r.us, millisToMicrosSaturated(val))]
       [] self.kind = "seconds" ->
            [r EXCEPT !.us = saturatingAdd(r.us, secondsToMicrosSaturated(val))]

\* operator+ written like operator- (saturatingAdd)
ElapsedPlus_adds(self, val) == ElapsedMinus(self, val)

\* operator+(int64_t val) const: the timer returned
ElapsedPlus(self, val) ==
  LET r == ElapsedCopyCtor(self)
  IN CASE self.kind = "micros" -> [r EXCEPT !.us = saturatingSub(r.us, val)]
       [] self.kind = "millis" ->
            [r EXCEPT !.us = saturatingSub(r.us, millisToMicrosSaturated(val))]
       [] self.kind = "seconds" ->
            [r EXCEPT !.us = saturatingSub(r.us, secondsToMicrosSaturated(val))]

\* Elapsed*64 c = t + val;  (or c = t + val; for an existing c)
BinaryPlus(val) ==
  /\ timer.kind \in Kinds
  /\ copy.kind \in {"none", timer.kind}
  /\ nOps < MaxOps
  /\ nOps' = nOps + 1
  /\ copy' = ElapsedPlus(timer, val)
  /\ hist' = [op |-> "binPlus", v |-> val, at |-> hwTime, was |-> timer.us]
  /\ obs' = NoObs
  /\ UNCHANGED <<formatVars, libVars, buildVars, satVars, clockVars, stopwatchVars, timer, nAdv>>

\* Elapsed*64 c = t - val;
BinaryMinus(val) ==
  /\ timer.kind \in Kinds
  /\ copy.kind \in {"none", timer.kind}
  /\ nOps < MaxOps
  /\ nOps' = nOps + 1
  /\ copy' = ElapsedMinus(timer, val)
  /\ hist' = [op |-> "binMinus", v |-> val, at |-> hwTime, was |-> timer.us]
  /\ obs' = NoObs
  /\ UNCHANGED <<formatVars, libVars, buildVars, satVars, clockVars, stopwatchVars, timer, nAdv>>

\* x = t; y = c;  two conversions, no clock advance between
ReadBoth ==
  /\ timer.kind \in Kinds
  /\ copy.kind \in Kinds
  /\ LET m1 == micros64Impl(last, high)
         m2 == micros64Impl(m1.last, m1.high)
     IN /\ obs' = [what |-> "readBoth", clock |-> m2.ret,
                   val |-> ElapsedRead(timer.kind, timer.us, m1.ret),
                   arg |-> ElapsedRead(copy.kind, copy.us, m2.ret)]
        /\ ClockCalled(m2)
  /\ UNCHANGED <<formatVars, libVars, buildVars, satVars, objectVars, timer, hist, nOps, nAdv>>

\* ------------------------------------------------------------------------
\* Stopwatch
\* ------------------------------------------------------------------------
\* Each method is given the object s and the result m of the micros64Impl
\* call it would make, and yields the object it leaves (or its return value).

\* Stopwatch::Stopwatch()
Stopwatch == [startUs |-> 0, totalUs |-> 0, running |-> FALSE]

\* start() that keeps the accumulated time, as resume() does
start_keepsTotal(s, m) ==
  [startUs |-> micros64(m), totalUs |-> s.totalUs, running |-> TRUE]

start(s, m) == [startUs |-> micros64(m), totalUs |-> 0, running |-> TRUE]

\* stop() that forgets the segment that was running
stop_dropsSegment(s, m) ==
  IF s.running
  THEN [startUs |-> 0, totalUs |-> s.totalUs, running |-> FALSE]
  ELSE s

\* stop() that leaves the start timestamp in place
stop_keepsStart(s, m) ==
  IF s.running
  THEN [startUs |-> s.startUs,
        totalUs |-> saturatingAdd(s.totalUs, microsSince(m, s.startUs)),
        running |-> FALSE]
  ELSE s

\* stop() that stores the last segment instead of adding it
stop_overwrites(s, m) ==
  IF s.running
  THEN [startUs |-> 0, totalUs |-> microsSince(m, s.startUs), running |-> FALSE]
  ELSE s

stop(s, m) ==
  IF s.running
  THEN [startUs |-> 0,
        totalUs |-> saturatingAdd(s.totalUs, microsSince(m, s.startUs)),
        running |-> FALSE]
  ELSE s

\* resume() without the `if (!_running)` test
resume_restamps(s, m) == [s EXCEPT !.startUs = micros64(m), !.running = TRUE]

resume(s, m) ==
  IF ~s.running
  THEN [s EXCEPT !.startUs = micros64(m), !.running = TRUE]
  ELSE s

\* reset() that only clears the accumulated time
reset_keepsStart(s, m) == [s EXCEPT !.totalUs = 0]

reset(s, m) ==
  IF s.running
  THEN [s EXCEPT !.totalUs = 0, !.startUs = micros64(m)]
  ELSE [s EXCEPT !.totalUs = 0, !.startUs = 0]

\* elapsedMicros() without the `if (_running)` test
elapsedMicros_ignoresRunning(s, m) ==
  saturatingAdd(s.totalUs, microsSince(m, s.startUs))

\* elapsedMicros() returning the accumulated time only
elapsedMicros_onlyTotal(s, m) == s.totalUs

elapsedMicros(s, m) ==
  LET acc == s.totalUs
  IN IF s.running THEN saturatingAdd(acc, microsSince(m, s.startUs)) ELSE acc

elapsedMillis(s, m) == TruncDiv(elapsedMicros(s, m), 1000)

\* elapsedSeconds() dividing by the milliseconds scale
elapsedSeconds_asMillis(s, m) == TruncDiv(elapsedMicros(s, m), 1000)

elapsedSeconds(s, m) == TruncDiv(elapsedMicros(s, m), 1000000)

isRunning(s) == s.running

NoSwHist == [op |-> "ctor", pre |-> Stopwatch, at |-> 0, now |-> 0]

StopwatchIdle ==
  /\ sw = Stopwatch
  /\ swHist = NoSwHist
  /\ ran = 0
  /\ fresh = TRUE
  /\ nSw = 0

\* microseconds by which the mock clock is advanced around a stopwatch: just
\* under a wrap period of the hardware counter, a quarter and half a second
StopwatchSteps == {TickSpan - 1, 250000, 500000}

\* the statics after a method that reads the clock only when `called`
ClockCalledIf(called, m) ==
  IF called THEN ClockCalled(m) ELSE UNCHANGED clockVars

\* sw.start();
CallStart ==
  /\ nSw < MaxSwOps
  /\ nSw' = nSw + 1
  /\ LET m == micros64Impl(last, high)
     IN /\ sw' = start(sw, m)
        /\ swHist' = [op |-> "start", pre |-> sw, at |-> hwTime, now |-> m.ret]
        /\ ClockCalled(m)
  /\ ran' = 0
  /\ fresh' = FALSE
  /\ obs' = NoObs
  /\ UNCHANGED <<formatVars, libVars, buildVars, satVars, copyVars, timer, hist, nOps, nAdv>>

\* sw.stop();
CallStop ==
  /\ nSw < MaxSwOps
  /\ nSw' = nSw + 1
  /\ LET m == micros64Impl(last, high)
     IN /\ sw' = stop(sw, m)
        /\ swHist' = [op |-> "stop", pre |-> sw, at |-> hwTime,
                      now |-> IF sw.running THEN m.ret ELSE 0]
        /\ ClockCalledIf(sw.running, m)
  /\ obs' = NoObs
  /\ UNCHANGED <<formatVars, libVars, buildVars, satVars, copyVars, timer, hist, nOps, nAdv, ran, fresh>>

\* sw.resume();
CallResume ==
  /\ nSw < MaxSwOps
  /\ nSw' = nSw + 1
  /\ LET m == micros64Impl(last, high)
     IN /\ sw' = resume(sw, m)
        /\ swHist' = [op |-> "resume", pre |-> sw, at |-> hwTime,
                      now |-> IF ~sw.running THEN m.ret ELSE 0]
        /\ ClockCalledIf(~sw.running, m)
  /\ fresh' = FALSE
  /\ obs' = NoObs
  /\ UNCHANGED <<formatVars, libVars, buildVars, satVars, copyVars, timer, hist, nOps, nAdv, ran>>

\* sw.reset();
CallReset ==
  /\ nSw < MaxSwOps
  /\ nSw' = nSw + 1
  /\ LET m == micros64Impl(last, high)
     IN /\ sw' = reset(sw, m)
        /\ swHist' = [op |-> "reset", pre |-> sw, at |-> hwTime,
                      now |-> IF sw.running THEN m.ret ELSE 0]
        /\ ClockCalledIf(sw.running, m)
  /\ ran' = 0
  /\ obs' = NoObs
  /\ UNCHANGED <<formatVars, libVars, buildVars, satVars, copyVars, timer, hist, nOps, nAdv, fresh>>

\* x = sw.elapsedMicros(); x = sw.elapsedMillis(); x = sw.elapsedSeconds();
CallElapsedMicros ==
  /\ LET m == micros64Impl(last, high)
     IN /\ obs' = [what |-> "elapsedMicros", arg |-> 0,
                   clock |-> IF sw.running THEN m.ret ELSE 0,
                   val |-> elapsedMicros(sw, m)]
        /\ ClockCalledIf(sw.running, m)
  /\ UNCHANGED <<formatVars, libVars, buildVars, satVars, objectVars, timer, hist, nOps, nAdv>>

CallElapsedMillis ==
  /\ LET m == micros64Impl(last, high)
     IN /\ obs' = [what |-> "elapsedMillis", arg |-> 0,
                   clock |-> IF sw.running THEN m.ret ELSE 0,
                   val |-> elapsedMillis(sw, m)]
        /\ ClockCalledIf(sw.running, m)
  /\ UNCHANGED <<formatVars, libVars, buildVars, satVars, objectVars, timer, hist, nOps, nAdv>>

CallElapsedSeconds ==
  /\ LET m == micros64Impl(last, high)
     IN /\ obs' = [what |-> "elapsedSeconds", arg |-> 0,
                   clock |-> IF sw.running THEN m.ret ELSE 0,
                   val |-> elapsedSeconds(sw, m)]
        /\ ClockCalledIf(sw.running, m)
  /\ UNCHANGED <<formatVars, libVars, buildVars, satVars, objectVars, timer, hist, nOps, nAdv>>

\* b = sw.isRunning();
CallIsRunning ==
  /\ obs' = [what |-> "isRunning", arg |-> 0, clock |-> 0, val |-> isRunning(sw)]
  /\ UNCHANGED <<formatVars, libVars, buildVars, satVars, clockVars, objectVars, timer, hist, nOps, nAdv>>

\* ------------------------------------------------------------------------
\* formatTimeTo (SystemChrono.cpp)
\* ------------------------------------------------------------------------
\* A 64-bit unsigned word is the sequence of its decimal digits, most
\* significant first, without leading zeros; an int64_t is a sign and a
\* magnitude.  Text is a sequence of one-character strings.
RECURSIVE Strip(_)
Strip(d) ==
  IF Len(d) > 1 /\ Head(d) = 0 THEN Strip(Tail(d)) ELSE d

\* one step of long division: the running remainder takes the next digit
RECURSIVE LongDivision(_, _, _, _)
LongDivision(d, by, q, r) ==
  IF d = <<>>
  THEN [q |-> Strip(q), r |-> r]
  ELSE LET cur == r * 10 + Head(d)
       IN LongDivision(Tail(d), by, Append(q, cur \div by), cur % by)

\* uint64_t / ULL constant
Div64(n, by) == LongDivision(n, by, <<>>, 0).q

\* uint64_t % ULL constant (the result is below the constant: a plain number)
Mod64(n, by) == LongDivision(n, by, <<>>, 0).r

\* n + 1ULL
RECURSIVE Increment(_)
Increment(n) ==
  IF n = <<>> THEN <<1>>
  ELSE LET k == Len(n)
       IN IF n[k] < 9
          THEN [n EXCEPT ![k] = n[k] + 1]
          ELSE Append(Increment(SubSeq(n, 1, k - 1)), 0)

\* INT64_MAX_VALUE and INT64_MIN_VALUE at their real width
Int64MaxDigits == <<9, 2, 2, 3, 3, 7, 2, 0, 3, 6, 8, 5, 4, 7, 7, 5, 8, 0, 7>>
Int64Max == [neg |-> FALSE, mag |-> Int64MaxDigits]
Int64Min == [neg |-> TRUE, mag |-> Increment(Int64MaxDigits)]

\* absToUnsigned with the INT64_MIN case answered as zero
absToUnsigned_minAsZero(value) ==
  IF value = Int64Min THEN <<0>> ELSE value.mag

absToUnsigned(value) ==
  IF ~value.neg
  THEN value.mag                          \* static_cast<uint64_t>(value)
  ELSE IF value = Int64Min
       THEN Increment(Int64Max.mag)       \* (uint64_t)INT64_MAX_VALUE + 1ULL
       ELSE value.mag                     \* static_cast<uint64_t>(-value)

sizeToDetail(value) ==
  LET DETAIL_MAX == 2147483647
  IN IF value > DETAIL_MAX THEN DETAIL_MAX ELSE value

\* Status.h
Status(code, detail, msg) == [code |-> code, detail |-> detail, msg |-> msg]
Ok == Status("OK", 0, "")

\* the caller's sizing constant (SystemChrono.h): sign, 20 digits of hours,
\* ':', two digits, ':', two digits, '.', three digits, terminator
TIME_FORMAT_BUFFER_SIZE == 32

\* the characters of a uint64_t under %llu
DigitChar(d) == <<"0", "1", "2", "3", "4", "5", "6", "7", "8", "9">>[d + 1]
PrintLLU(n) == [i \in 1 .. Len(n) |-> DigitChar(n[i])]

\* the characters of a small number under %02llu / %03llu
RECURSIVE PrintPadded(_, _)
PrintPadded(n, width) ==
  IF width <= 1 /\ n < 10
  THEN <<DigitChar(n)>>
  ELSE Append(PrintPadded(n \div 10, width - 1), DigitChar(n % 10))

\* "%s%llu:%02llu:%02llu.%03llu" with every field printed unpadded
TimeText_unpadded(negative, hours, minutes, seconds, millis) ==
  (IF negative THEN <<"-">> ELSE <<>>) \o PrintLLU(hours) \o <<":">>
    \o PrintPadded(minutes, 1) \o <<":">> \o PrintPadded(seconds, 1)
    \o <<".">> \o PrintPadded(millis, 1)

\* "%s%llu:%02llu:%02llu.%03llu"
TimeText(negative, hours, minutes, seconds, millis) ==
  (IF negative THEN <<"-">> ELSE <<>>) \o PrintLLU(hours) \o <<":">>
    \o PrintPadded(minutes, 2) \o <<":">> \o PrintPadded(seconds, 2)
    \o <<".">> \o PrintPadded(millis, 3)

\* snprintf(out, outLen, ...) of a text: at most outLen - 1 characters and
\* a terminator are stored, the full length is returned.  When the library
\* reports an error the return is negative and what the array holds is
\* indeterminate (written "?" here).
snprintf(out, outLen, text, fails) ==
  IF fails
  THEN [written |-> -1, out |-> [out EXCEPT ![1] = "?"]]
  ELSE LET n == IF Len(text) < outLen - 1 THEN Len(text) ELSE outLen - 1
       IN [written |-> Len(text),
           out |-> [i \in 1 .. Len(out) |->
                      IF i <= n THEN text[i]
                      ELSE IF i = n + 1 THEN "NUL"
                      ELSE out[i]]]

\* no entry check on the capacity: every buffer goes on to snprintf
TooSmall_never(outLen) == FALSE

\* the entry check on the capacity, off by one
TooSmall_orEqual(outLen) == outLen <= TIME_FORMAT_BUFFER_SIZE

\* outLen < TIME_FORMAT_BUFFER_SIZE
TooSmall(outLen) == outLen < TIME_FORMAT_BUFFER_SIZE

\* the sign taken from the millisecond count, after the division
negative_afterDivision(microsSinceBoot) ==
  microsSinceBoot.neg /\ Div64(microsSinceBoot.mag, 1000) # <<0>>

\* microsSinceBoot < 0
negative(microsSinceBoot) == microsSinceBoot.neg

\* the entry check without the capacity
NoBuffer_onlyNull(outNull, outLen) == outNull

\* (out == nullptr) || (outLen == 0U)
NoBuffer(outNull, outLen) == outNull \/ outLen = 0

\* the `written < 0` branch returning without terminating the buffer
FormattingFailed_leavesBuffer(p) ==
  [status |-> Status("INTERNAL_ERROR", p.written, "Time formatting failed"),
   out |-> p.out]

\* if (written < 0) { out[0] = '\0'; return Status(Err::INTERNAL_ERROR, ...); }
FormattingFailed(p) ==
  [status |-> Status("INTERNAL_ERROR", p.written, "Time formatting failed"),
   out |-> [p.out EXCEPT ![1] = "NUL"]]

\* Status formatTimeTo(int64_t microsSinceBoot, char* out, size_t outLen):
\* the Status returned and the caller's array afterwards
formatTimeTo(microsSinceBoot, outNull, out, outLen, fails) ==
  IF NoBuffer(outNull, outLen)
  THEN [status |-> Status("INVALID_CONFIG", 0, "Output buffer is null or empty"),
        out |-> out]
  ELSE
  LET out0 == [out EXCEPT ![1] = "NUL"]
  IN IF TooSmall(outLen)
     THEN [status |-> Status("INVALID_CONFIG", TIME_FORMAT_BUFFER_SIZE,
                             "Output buffer too small"),
           out |-> out0]
     ELSE
     LET totalMs == Div64(absToUnsigned(microsSinceBoot), 1000)
         hours == Div64(totalMs, 3600000)
         minutes == Mod64(Div64(totalMs, 60000), 60)
         seconds == Mod64(Div64(totalMs, 1000), 60)
         millis == Mod64(totalMs, 1000)
         p == snprintf(out0, outLen,
                       TimeText(negative(microsSinceBoot), hours, minutes,
                                seconds, millis), fails)
     IN IF p.written < 0
        THEN FormattingFailed(p)
        ELSE IF p.written >= outLen
        THEN [status |-> Status("INVALID_CONFIG", sizeToDetail(p.written + 1),
                                "Output buffer too small"),
              out |-> [p.out EXCEPT ![1] = "NUL"]]
        ELSE [status |-> Ok, out |-> p.out]

\* values handed to the formatter
Pos(d) == [neg |-> FALSE, mag |-> d]
Neg(d) == [neg |-> TRUE, mag |-> d]
FormatInputs ==
  { Pos(<<0>>), Neg(<<1>>), Pos(<<9, 9, 9>>), Neg(<<9, 9, 9>>),
    Pos(<<1, 0, 0, 0>>), Neg(<<1, 0, 0, 0>>),
    Pos(<<1, 2, 3, 4, 5, 6, 7>>), Neg(<<1, 2, 3, 4, 5, 6, 7>>),
    Pos(<<5, 9, 9, 9, 9, 9, 9, 9>>), Pos(<<6, 0, 0, 0, 0, 0, 0, 0>>),
    Pos(<<3, 5, 9, 9, 9, 9, 9, 9, 9, 9>>), Neg(<<3, 6, 0, 0, 0, 0, 0, 0, 0, 0>>),
    Pos(<<4, 5, 2, 9, 6, 7, 8, 9, 0, 1, 2>>),
    Int64Max, Neg(Int64MaxDigits), Int64Min }
FormatCapacities ==
  {0, 1, 12, 22, TIME_FORMAT_BUFFER_SIZE - 1, TIME_FORMAT_BUFFER_SIZE,
   TIME_FORMAT_BUFFER_SIZE + 1}

NoStatus == Status("none", 0, "")
\* the array handed over (outLen bytes) and the byte behind it
FreshBuffer(outLen) == [i \in 1 .. outLen + 1 |-> "untouched"]

FormatIdle ==
  /\ fmtArg = Pos(<<0>>)
  /\ fmtNull = FALSE
  /\ fmtLen = 0
  /\ fmtFail = FALSE
  /\ fmtBuf = FreshBuffer(0)
  /\ fmtStatus = NoStatus

\* char buf[N]; Status st = formatTimeTo(value, buf or nullptr, outLen);
CallFormatTimeTo ==
  /\ fmtStatus = NoStatus
  /\ LET r == formatTimeTo(fmtArg, fmtNull, fmtBuf, fmtLen, fmtFail)
     IN /\ fmtStatus' = r.status
        /\ fmtBuf' = r.out
  /\ UNCHANGED <<chronoVars, libVars, fmtArg, fmtNull, fmtLen, fmtFail>>

\* ------------------------------------------------------------------------
\* YourLib (YourLib.cpp, YourLib.h)
\* ------------------------------------------------------------------------
\* uint32_t arithmetic on the scaled word
Wrap32(x) == x % MsSpan
\* static_cast<int32_t>(x) of a uint32_t x
Int32(x) == IF x >= MsHalf THEN x - MsSpan ELSE x

\* Config.h (the UART pins are never read by YourLib)
Config(ledPin, intervalMs) == [ledPin |-> ledPin, intervalMs |-> intervalMs]
\* the member initialisers of YourLib and of Config
YourLib ==
  [config |-> Config(-1, 1000), initialized |-> FALSE,
   nextMs |-> 0, tickCount |-> 0, lastTickMs |-> 0]
\* a GPIO pin after reset
PinAtReset == [output |-> FALSE, level |-> "LOW"]

\* begin() without the validation of intervalMs
begin_acceptsZero(self, pin, config) ==
  [status |-> Ok,
   self |-> [config |-> config, initialized |-> TRUE,
             nextMs |-> 0, tickCount |-> 0, lastTickMs |-> 0],
   pin |-> pin]

\* begin() that stores the configuration and resets the members before it
\* validates intervalMs
begin_assignsFirst(self, pin, config) ==
  LET stored == [config |-> config, initialized |-> TRUE,
                 nextMs |-> 0, tickCount |-> 0, lastTickMs |-> 0]
  IN IF config.intervalMs = 0
     THEN [status |-> Status("INVALID_CONFIG", 0, "intervalMs must be > 0"),
           self |-> stored, pin |-> pin]
     ELSE [status |-> Ok, self |-> stored,
           pin |-> IF config.ledPin >= 0
                   THEN [output |-> TRUE, level |-> "LOW"]
                   ELSE pin]

\* Status YourLib::begin(const Config& config): the Status, the object and
\* the LED pin afterwards
begin(self, pin, config) ==
  IF config.intervalMs = 0
  THEN [status |-> Status("INVALID_CONFIG", 0, "intervalMs must be > 0"),
        self |-> self, pin |-> pin]
  ELSE [status |-> Ok,
        self |-> [config |-> config, initialized |-> TRUE,
                  nextMs |-> 0, tickCount |-> 0, lastTickMs |-> 0],
        pin |-> IF config.ledPin >= 0
                THEN [output |-> TRUE, level |-> "LOW"]
                ELSE pin]

\* void YourLib::end()
end(self, pin) ==
  IF ~self.initialized
  THEN [self |-> self, pin |-> pin]
  ELSE [self |-> [self EXCEPT !.initialized = FALSE],
        pin |-> IF self.config.ledPin >= 0
                THEN [pin EXCEPT !.level = "LOW"]
                ELSE pin]

\* the deadline check and its action, whatever _initialized says
tick_unguarded(self, pin, now_ms) ==
  IF Int32(Wrap32(now_ms - self.nextMs)) >= 0
  THEN [self |-> [self EXCEPT !.nextMs = Wrap32(now_ms + self.config.intervalMs),
                              !.tickCount = Wrap32(self.tickCount + 1),
                              !.lastTickMs = now_ms],
        pin |-> pin]
  ELSE [self |-> self, pin |-> pin]

\* void YourLib::tick(uint32_t now_ms)
tick(self, pin, now_ms) ==
  IF ~self.initialized
  THEN [self |-> self, pin |-> pin]
  ELSE IF Int32(Wrap32(now_ms - self.nextMs)) >= 0
       THEN [self |-> [self EXCEPT !.nextMs = Wrap32(now_ms + self.config.intervalMs),
                                   !.tickCount = Wrap32(self.tickCount + 1),
                                   !.lastTickMs = now_ms],
             pin |-> IF self.config.ledPin >= 0
                     THEN [pin EXCEPT !.level = IF pin.level = "HIGH"
                                                THEN "LOW" ELSE "HIGH"]
                     ELSE pin]
       ELSE [self |-> self, pin |-> pin]

\* millis(): the low word of the true time
millis == Wrap32(msTime)

\* configurations handed to begin(): an interval of zero, of one (with an
\* LED) and the longest the signed delta can tell (without)
LibConfigs == {Config(2, 0), Config(2, 1), Config(-1, MsHalf - 1)}

NoLibHist ==
  [op |-> "none", prevOp |-> "none", arg |-> 0, status |-> NoStatus,
   acted |-> FALSE, since |-> -1]

LibIdle ==
  /\ lib = YourLib
  /\ led = PinAtReset
  /\ msTime = 0
  /\ libHist = NoLibHist
  /\ lastAct = -1

\* true time since the last action of this session
SinceLastAct == IF lastAct = -1 THEN -1 ELSE msTime - lastAct

\* time passes between two calls of the sketch
AdvanceMs(d) ==
  /\ msTime + d <= LibHorizon
  /\ msTime' = msTime + d
  /\ UNCHANGED <<chronoVars, formatVars, lib, led, libHist, lastAct>>

\* Status st = lib.begin(config);
CallBegin(config) ==
  /\ LET r == begin(lib, led, config)
     IN /\ lib' = r.self
        /\ led' = r.pin
        /\ libHist' = [op |-> "begin", prevOp |-> libHist.op,
                       arg |-> config.intervalMs, status |-> r.status,
                       acted |-> FALSE, since |-> SinceLastAct]
        /\ lastAct' = IF r.status.code = "OK" THEN -1 ELSE lastAct
  /\ UNCHANGED <<chronoVars, formatVars, msTime>>

\* lib.end();
CallEnd ==
  /\ LET r == end(lib, led)
     IN /\ lib' = r.self
        /\ led' = r.pin
  /\ libHist' = [op |-> "end", prevOp |-> libHist.op, arg |-> 0, status |-> NoStatus,
                 acted |-> FALSE, since |-> SinceLastAct]
  /\ UNCHANGED <<chronoVars, formatVars, msTime, lastAct>>

\* lib.tick(millis());
CallTick ==
  /\ LET r == tick(lib, led, millis)
         acted == r.self.tickCount # lib.tickCount
     IN /\ lib' = r.self
        /\ led' = r.pin
        /\ libHist' = [op |-> "tick", prevOp |-> libHist.op, arg |-> 0,
                       status |-> NoStatus,
                       acted |-> acted, since |-> SinceLastAct]
        /\ lastAct' = IF acted THEN msTime ELSE lastAct
  /\ UNCHANGED <<chronoVars, formatVars, msTime>>

\* ------------------------------------------------------------------------
\* Specifications
\* ------------------------------------------------------------------------
\* Wrap-tracked clock called from the main loop and from interrupt handlers
Init ==
  /\ gnuc = TRUE
  /\ platform = "ARDUINO"
  /\ SatIdle
  /\ ClockBoot
  /\ ElapsedIdle
  /\ CopyIdle
  /\ StopwatchIdle
  /\ FormatIdle
  /\ LibIdle

Next ==
  \/ \E c \in Contexts : StepNoInterrupts(c)
  \/ \E c \in Contexts, d \in 0 .. TickSpan : StepRead(c, d)
  \/ \E c \in Contexts : StepCompare(c)
  \/ \E c \in Contexts : StepStore(c)
  \/ \E c \in Contexts : StepCompose(c)
  \/ \E c \in Contexts : StepInterrupts(c)
  \/ IsrEnter
  \/ IsrReturn
  \/ SketchNoInterrupts
  \/ SketchInterrupts

Spec == Init /\ [][Next]_vars

\* Saturating primitives applied to a drawn pair of words
SatInit ==
  /\ gnuc \in BOOLEAN
  /\ platform = "ARDUINO"
  /\ satOp = "none" /\ satRes = 0
  /\ satA \in SatInputs /\ satB \in SatInputs
  /\ ClockBoot
  /\ ElapsedIdle
  /\ CopyIdle
  /\ StopwatchIdle
  /\ FormatIdle
  /\ LibIdle

SatNext == ApplyAdd \/ ApplySub \/ ApplyMul

SatSpec == SatInit /\ [][SatNext]_vars

\* Elapsed helpers and timers driven by sketch code over a mock clock
ElapsedInit ==
  /\ gnuc \in BOOLEAN
  /\ platform \in {"ESP32", "ARDUINO"}
  /\ SatIdle
  /\ ClockBoot
  /\ ElapsedIdle
  /\ CopyIdle
  /\ StopwatchIdle
  /\ FormatIdle
  /\ LibIdle

ElapsedNext ==
  \/ \E t \in ClockSteps : AdvanceClock(t)
  \/ \E k \in Kinds : ConstructDefault(k)
  \/ \E k \in Kinds, v \in TimerValues : Construct(k, v)
  \/ \E v \in TimerValues : AssignInt(v)
  \/ \E v \in ShiftValues : PlusAssign(v)
  \/ \E v \in ShiftValues : MinusAssign(v)
  \/ ReadTimer
  \/ CallMillis64
  \/ CallSeconds64

ElapsedSpec == ElapsedInit /\ [][ElapsedNext]_vars

\* The *Since helpers called by sketch code over a mock clock
SinceNext ==
  \/ \E t \in ClockSteps : AdvanceClock(t)
  \/ \E s \in SinceStarts : CallMicrosSince(s)
  \/ \E s \in SinceStarts : CallMillisSince(s)
  \/ \E s \in SinceStarts : CallSecondsSince(s)
  \/ CallMicrosSinceNow

SinceSpec == ElapsedInit /\ [][SinceNext]_vars

\* A timer and a copy of it, driven by sketch code over a mock clock
CopyNext ==
  \/ \E t \in ClockSteps : AdvanceClock(t)
  \/ \E k \in Kinds : ConstructDefault(k)
  \/ \E v \in ShiftValues : PlusAssign(v)
  \/ CopyConstruct
  \/ CopyAssign
  \/ \E v \in ShiftValues : CopyPlusAssign(v)
  \/ \E v \in ShiftValues : BinaryPlus(v)
  \/ \E v \in ShiftValues : BinaryMinus(v)
  \/ ReadBoth

CopySpec == ElapsedInit /\ [][CopyNext]_vars

\* A Stopwatch driven by sketch code over a mock clock
StopwatchNext ==
  \/ \E t \in StopwatchSteps : AdvanceClock(t)
  \/ CallStart
  \/ CallStop
  \/ CallResume
  \/ CallReset
  \/ CallElapsedMicros
  \/ CallElapsedMillis
  \/ CallElapsedSeconds
  \/ CallIsRunning

StopwatchSpec == ElapsedInit /\ [][StopwatchNext]_vars

\* formatTimeTo applied to a drawn value, buffer and capacity
FormatInit ==
  /\ gnuc = TRUE
  /\ platform = "ARDUINO"
  /\ SatIdle
  /\ ClockBoot
  /\ ElapsedIdle
  /\ CopyIdle
  /\ StopwatchIdle
  /\ fmtArg \in FormatInputs
  /\ fmtNull \in BOOLEAN
  /\ fmtLen \in FormatCapacities
  /\ fmtFail \in BOOLEAN
  /\ fmtBuf = FreshBuffer(fmtLen)
  /\ fmtStatus = NoStatus
  /\ LibIdle

FormatNext == CallFormatTimeTo

FormatSpec == FormatInit /\ [][FormatNext]_vars

\* A YourLib object driven by sketch code while time passes
LibNext ==
  \/ \E d \in {1, MsHalf} : AdvanceMs(d)
  \/ \E c \in LibConfigs : CallBegin(c)
  \/ CallEnd
  \/ CallTick

LibSpec == Init /\ [][LibNext]_vars

\* ========================================================================
\* Properties
\* ========================================================================
Clamp(x) ==
  IF x > INT64_MAX_VALUE THEN INT64_MAX_VALUE
  ELSE IF x < INT64_MIN_VALUE THEN INT64_MIN_VALUE
  ELSE x

\* a context is between its noInterrupts() and the end of its interrupts()
InCS(c) == pc[c] \in {"read", "compare", "store", "compose", "interrupts"}

\* C1: on the wrap-tracked path, as long as every read of the hardware
\* counter comes less than one wrap period (2^TickBits microseconds) after
\* the previous read, the values micros64() produces, taken in the order of
\* the invocations' critical sections, never decrease.
C1_NonDecreasing == [][gapOK' => lastRet' >= lastRet]_vars

C1_Witness ==
  /\ gapOK /\ depth = 0 /\ pc[0] = "idle"
  /\ high = 2 * TickSpan /\ lastRet > 2 * TickSpan

\* C2: under the polling precondition (reads less than one wrap period
\* apart, the first less than one wrap period after boot) each value
\* micros64() composes equals
\* 2^TickBits * (hardware wraps so far) + current reading, i.e. the true
\* time of the read; and an invocation that sees the reading wrap produces
\* a value strictly greater than the one produced before it.
C2_ExactAcrossWrap ==
  /\ [](precOK =>
         \A c \in Contexts :
           pc[c] = "interrupts" =>
             ToInt64(full[c]) = TickSpan * (hwTime \div TickSpan) + nowv[c])
  /\ [][\A c \in Contexts :
          (pc[c] = "compose" /\ pc'[c] = "interrupts" /\ wrapped)
            => lastRet' > lastRet]_vars

\* readings TickSpan-1 then 5 (0xFFFFFFFF, 0x00000005): the value composed
\* after the wrap is 2^TickBits + 5
C2_Witness ==
  /\ precOK /\ wrapped /\ pc[0] = "interrupts"
  /\ high = TickSpan /\ nowv[0] = 5 /\ hwTime = TickSpan + 5
  /\ full[0] = TickSpan + 5 /\ lastRet = TickSpan + 5

\* C3: with micros64() called from the main loop and from interrupt
\* handlers, no two invocations are inside the read / compare / update /
\* store / compose sequence at once; hence, under the polling precondition
\* and every interleaving, whenever no invocation is inside that sequence
\* the high accumulator holds exactly one 2^TickBits per hardware wrap up
\* to the last read, and `last` holds that read's reading.
C3_AtomicWrapCount ==
  /\ \A c1, c2 \in Contexts : (c1 # c2) => ~(InCS(c1) /\ InCS(c2))
  /\ (precOK /\ \A c \in Contexts : ~InCS(c))
       => (high = TickSpan * (hwTime \div TickSpan) /\ last = hwTime % TickSpan)

\* a handler's invocation has counted the second wrap while the main loop
\* is suspended
C3_Witness ==
  /\ precOK /\ depth = 1 /\ pc[1] = "return"
  /\ high = 2 * TickSpan /\ hwTime \div TickSpan = 2 /\ last = hwTime % TickSpan

\* C4: saturatingAdd(a,b) is the mathematical sum when it fits int64_t,
\* INT64_MAX when the sum exceeds INT64_MAX, INT64_MIN when it is below
\* INT64_MIN.
C4_SaturatingAdd ==
  satOp = "add" =>
    LET sum == satA + satB
    IN /\ (sum \in Int64) => satRes = sum
       /\ (sum > INT64_MAX_VALUE) => satRes = INT64_MAX_VALUE
       /\ (sum < INT64_MIN_VALUE) => satRes = INT64_MIN_VALUE

C4_Witness ==
  /\ satOp = "add" /\ satA = INT64_MIN_VALUE /\ satB = -1
  /\ satRes = INT64_MIN_VALUE

\* C5: saturatingSub(a,b) is the mathematical difference when it fits
\* int64_t, INT64_MAX when it exceeds INT64_MAX, INT64_MIN when it is below
\* INT64_MIN; b = INT64_MIN included.
C5_SaturatingSub ==
  satOp = "sub" =>
    LET diff == satA - satB
    IN /\ (diff \in Int64) => satRes = diff
       /\ (diff > INT64_MAX_VALUE) => satRes = INT64_MAX_VALUE
       /\ (diff < INT64_MIN_VALUE) => satRes = INT64_MIN_VALUE

C5_Witness ==
  /\ satOp = "sub" /\ satA = 0 /\ satB = INT64_MIN_VALUE
  /\ satRes = INT64_MAX_VALUE

\* C6: saturatingMul(a,b) is the mathematical product when it fits int64_t,
\* otherwise the bound on the side of the true product's sign;
\* saturatingMul(-1, INT64_MIN) and saturatingMul(INT64_MIN, -1) are
\* INT64_MAX.
C6_SaturatingMul ==
  satOp = "mul" =>
    /\ MulFits(satA, satB) => satRes = satA * satB
    /\ (~MulFits(satA, satB) /\ WideMul(satA, satB).neg) => satRes = INT64_MIN_VALUE
    /\ (~MulFits(satA, satB) /\ ~WideMul(satA, satB).neg) => satRes = INT64_MAX_VALUE
    /\ ({satA, satB} = {-1, INT64_MIN_VALUE}) => satRes = INT64_MAX_VALUE

C6_Witness ==
  /\ satOp = "mul" /\ satA = -1 /\ satB = INT64_MIN_VALUE
  /\ satRes = INT64_MAX_VALUE /\ ~gnuc

\* the clock value behind a *Since result, in the helper's unit
SinceNow(o) ==
  CASE o.what = "microsSince" -> o.clock
    [] o.what = "millisSince" -> TruncDiv(o.clock, 1000)
    [] o.what = "secondsSince" -> TruncDiv(o.clock, 1000000)

\* C7: microsSince / millisSince / secondsSince(start) return the
\* mathematical difference now - start clamped to int64_t, now being
\* micros64() / millis64() / seconds64(); a start later than now gives a
\* negative result, and an overflowing difference never wraps to the other
\* sign.
C7_SinceSaturates ==
  obs.what \in {"microsSince", "millisSince", "secondsSince"} =>
    /\ obs.val = Clamp(SinceNow(obs) - obs.arg)
    /\ (obs.arg > SinceNow(obs)) => obs.val < 0
    /\ (obs.arg < SinceNow(obs)) => obs.val > 0

\* start = INT64_MIN at a positive clock: the difference overflows and is
\* clamped to INT64_MAX
C7_Witness ==
  /\ obs.what = "microsSince" /\ obs.clock > 0
  /\ obs.arg = INT64_MIN_VALUE /\ obs.val = INT64_MAX_VALUE

\* C8: microsSince(micros64()) with no clock advance between the two reads
\* is 0, at every clock value.
C8_SinceNowIsZero == obs.what = "sinceNow" => obs.val = 0

C8_Witness ==
  /\ obs.what = "sinceNow" /\ platform = "ARDUINO"
  /\ high > 0 /\ obs.arg > TickSpan /\ obs.clock = obs.arg /\ obs.val = 0

\* unit scale of a timer type
Scale(k) ==
  CASE k = "micros" -> 1
    [] k = "millis" -> 1000
    [] k = "seconds" -> 1000000

\* constructing (or assigning) v at clock value `at` and reading at clock
\* value `clock` saturates nowhere
NoSaturation(k, v, at, clock) ==
  /\ MulFits(v, Scale(k))
  /\ (at - v * Scale(k)) \in Int64
  /\ (clock - (at - v * Scale(k))) \in Int64

\* C9: for each timer type, after construction with initial value v (the
\* default constructor being v = 0) and a clock advance of t microseconds,
\* with no saturation, a read returns (v*scale + t) / scale by C++ integer
\* division; constructed with 0 and advanced by 1,500,000 microseconds the
\* three types read 1500000, 1500 and 1.
C9_ReadAfterConstruction ==
  (obs.what = "read" /\ hist.op = "ctor") =>
    LET t == obs.clock - hist.at
        scale == Scale(timer.kind)
    IN /\ NoSaturation(timer.kind, hist.v, hist.at, obs.clock)
            => obs.val = TruncDiv(hist.v * scale + t, scale)
       /\ (hist.v = 0 /\ t = 1500000) =>
            obs.val = (CASE timer.kind = "micros" -> 1500000
                         [] timer.kind = "millis" -> 1500
                         [] timer.kind = "seconds" -> 1)

C9_Witness ==
  /\ obs.what = "read" /\ hist.op = "ctor" /\ timer.kind = "seconds"
  /\ hist.v = 0 /\ obs.clock - hist.at = 1500000 /\ obs.val = 1

\* C10: for each timer type, assigning the integer v leaves the baseline
\* that construction with v at the same clock value leaves; after assigning
\* 0 a read at an unchanged clock returns 0, whatever operations preceded.
C10_AssignRebases ==
  /\ hist.op = "assign" => timer.us = ElapsedCtor(timer.kind, hist.v, hist.at)
  /\ (obs.what = "read" /\ hist.op = "assign" /\ hist.v = 0 /\ obs.clock = hist.at)
       => obs.val = 0

C10_Witness ==
  /\ obs.what = "read" /\ hist.op = "assign" /\ hist.v = 0
  /\ obs.clock = hist.at /\ obs.val = 0
  /\ nOps = MaxOps /\ nAdv > 0 /\ timer.kind = "millis"

\* the signed number of units by which the last += / -= moved the reading
ShiftUnits(h) == IF h.op = "plus" THEN h.v ELSE -h.v

\* the last operation was t += d or t -= d, a read followed it, and neither
\* the scaling, the baseline update nor the two reads compared saturate
ShiftThenRead ==
  /\ obs.what = "read"
  /\ hist.op \in {"plus", "minus"}
  /\ MulFits(hist.v, Scale(timer.kind))
  /\ (hist.was - ShiftUnits(hist) * Scale(timer.kind)) \in Int64
  /\ (obs.clock - hist.was) \in Int64
  /\ (obs.clock - timer.us) \in Int64

\* the shift carried the elapsed microsecond count from one side of zero to
\* the other, and that count is not a whole number of units
ShiftCrossesZero ==
  LET before == obs.clock - hist.was
      after == obs.clock - timer.us
  IN /\ (before < 0 /\ after > 0) \/ (before > 0 /\ after < 0)
     /\ before % Scale(timer.kind) # 0

\* C11 as claimed: with no saturation, after `timer += d` (`timer -= d`) the
\* baseline is d*scale lower (higher) and a read at the same clock value
\* returns exactly d units more (less) than a read of the unshifted timer.
C11_ShiftExactInUnits ==
  ShiftThenRead =>
    /\ timer.us = hist.was - ShiftUnits(hist) * Scale(timer.kind)
    /\ obs.val = ElapsedRead(timer.kind, hist.was, obs.clock) + ShiftUnits(hist)

\* C11 amended: with no saturation, after `timer += d` (`timer -= d`) the
\* baseline is d*scale lower (higher); a read at the same clock value
\* returns exactly d units more (less) than a read of the unshifted timer,
\* unless the shift carries the elapsed microsecond count across zero while
\* it is not a whole number of units: then, both reads truncating toward
\* zero, the reading moves by one unit less.
C11_ShiftMovesBaseline ==
  ShiftThenRead =>
    LET would == ElapsedRead(timer.kind, hist.was, obs.clock)
        d == ShiftUnits(hist)
    IN /\ timer.us = hist.was - d * Scale(timer.kind)
       /\ ~ShiftCrossesZero => obs.val = would + d
       /\ ShiftCrossesZero => obs.val = would + d - (IF d > 0 THEN 1 ELSE -1)

\* a milliseconds timer 1.5 s after construction, then += 1: it reads 1501
C11_Witness ==
  /\ ShiftThenRead /\ ~ShiftCrossesZero
  /\ timer.kind = "millis" /\ hist.op = "plus" /\ hist.v = 1
  /\ obs.clock - hist.was = 1500000 /\ obs.val = 1501

\* C12: for each timer type and every int64 value v, a read made right
\* after constructing with v or assigning v (clock unchanged) never has the
\* sign opposite to v's, also when v*scale or now - v*scale overflows.
C12_SignKept ==
  (obs.what = "read" /\ hist.op \in {"ctor", "assign"} /\ obs.clock = hist.at) =>
    /\ hist.v > 0 => obs.val >= 0
    /\ hist.v < 0 => obs.val <= 0

\* INT64_MAX milliseconds assigned: the product overflows, the read is positive
C12_Witness ==
  /\ obs.what = "read" /\ hist.op = "assign" /\ obs.clock = hist.at
  /\ timer.kind = "millis" /\ hist.v = INT64_MAX_VALUE
  /\ ~MulFits(hist.v, 1000) /\ obs.val > 0

\* C13: copy construction and copy assignment copy the stored baseline
\* verbatim: until the original or the copy is modified, the two hold the
\* same baseline and read the same value at every clock value; and an
\* operation that modifies one of the two objects leaves the other as it was.
C13_CopyVerbatim ==
  /\ [](hist.op = "copy" =>
          /\ copy.kind = timer.kind
          /\ copy.us = timer.us
          /\ obs.what = "readBoth" => obs.arg = obs.val)
  /\ [][/\ (timer' # timer /\ timer.kind # "none") => copy' = copy
        /\ copy' # copy => timer' = timer]_vars

\* a seconds timer made at boot and shifted by += 1, copied at boot, the
\* two read a second and a half later
C13_Witness ==
  /\ hist.op = "copy" /\ hist.at = 0 /\ obs.what = "readBoth"
  /\ timer.kind = "seconds" /\ timer.us = -1000000
  /\ obs.clock = 1500000 /\ obs.val = 2 /\ obs.arg = 2

\* C14: a newly constructed Stopwatch is stopped, isRunning() is false and
\* elapsedMicros() is 0; whatever the clock does, and whatever stop() and
\* reset() calls are made, this stays so until start() or resume() is called.
C14_NewStopwatchAtZero ==
  fresh =>
    /\ sw = Stopwatch
    /\ obs.what = "isRunning" => obs.val = FALSE
    /\ obs.what = "elapsedMicros" => obs.val = 0

C14_Witness ==
  /\ fresh /\ nAdv = MaxAdvances /\ hwTime >= 500000 /\ swHist.op = "reset"
  /\ obs.what = "elapsedMicros" /\ obs.val = 0

\* C15: start(), whether the stopwatch was stopped or running and whatever
\* time it had accumulated, leaves it running with accumulated time 0 and
\* the start timestamp equal to the clock value of the call (the true time
\* on the native counter); elapsedMicros() read before the clock advances
\* is 0.
C15_StartFromAnyState ==
  swHist.op = "start" =>
    /\ sw.running /\ sw.totalUs = 0
    /\ sw.startUs = swHist.now
    /\ platform = "ESP32" => sw.startUs = swHist.at
    /\ (obs.what = "elapsedMicros" /\ hwTime = swHist.at) => obs.val = 0

\* start() on a running stopwatch that had accumulated half a second
C15_Witness ==
  /\ swHist.op = "start" /\ swHist.pre.running /\ swHist.pre.totalUs = 500000
  /\ swHist.at > swHist.pre.startUs
  /\ obs.what = "elapsedMicros" /\ hwTime = swHist.at /\ obs.val = 0

\* C16: stop() on a running stopwatch leaves it stopped with accumulated
\* time saturatingAdd(accumulated, now - start), now being the clock value of
\* the call; stop() on a stopped stopwatch changes no field.
C16_StopFoldsSegment ==
  swHist.op = "stop" =>
    IF swHist.pre.running
    THEN /\ ~sw.running
         /\ sw.totalUs =
              Clamp(swHist.pre.totalUs + Clamp(swHist.now - swHist.pre.startUs))
    ELSE sw = swHist.pre

\* the second stop of: start, 500000 us, stop, resume, 250000 us, stop
C16_Witness ==
  /\ swHist.op = "stop" /\ swHist.pre.running
  /\ swHist.pre.totalUs = 500000 /\ swHist.now - swHist.pre.startUs = 250000
  /\ sw.totalUs = 750000

\* C17: resume() on a stopped stopwatch leaves it running with the
\* accumulated time unchanged and the start timestamp equal to the clock
\* value of the call; resume() on a running stopwatch changes no field, so
\* the segment in progress keeps its start.
C17_ResumeKeepsTotal ==
  swHist.op = "resume" =>
    IF ~swHist.pre.running
    THEN /\ sw.running
         /\ sw.totalUs = swHist.pre.totalUs
         /\ sw.startUs = swHist.now
    ELSE sw = swHist.pre

\* resume() called 250000 us into a running segment
C17_Witness ==
  /\ swHist.op = "resume" /\ swHist.pre.running
  /\ platform = "ESP32" /\ swHist.at - swHist.pre.startUs = 250000
  /\ sw.startUs = swHist.pre.startUs
  /\ obs.what = "elapsedMicros" /\ obs.val = 250000

\* C18: reset() leaves the running flag as it was and the accumulated time
\* 0; elapsedMicros() read before the clock advances is 0 in both states;
\* on a running stopwatch later reads give the clock time since the reset.
C18_ResetKeepsState ==
  swHist.op = "reset" =>
    /\ sw.running = swHist.pre.running
    /\ sw.totalUs = 0
    /\ (obs.what = "elapsedMicros" /\ hwTime = swHist.at) => obs.val = 0
    /\ (obs.what = "elapsedMicros" /\ sw.running) => obs.val = obs.clock - swHist.now

\* reset() 500000 us into a running segment, read 250000 us later
C18_Witness ==
  /\ swHist.op = "reset" /\ swHist.pre.running /\ sw.running
  /\ swHist.now - swHist.pre.startUs = 500000
  /\ obs.what = "elapsedMicros" /\ obs.clock - swHist.now = 250000
  /\ obs.val = 250000

\* a clock read made now returns the true time: no hardware wrap was missed
ClockExact == micros64Impl(last, high).ret = hwTime

\* C19: after any sequence of start / stop / resume / reset calls and clock
\* advances, with a clock that missed no wrap (and nothing saturating),
\* elapsedMicros() is the clock time spent running since the most recent
\* start() or reset(); start, 500000 us, stop reads 500000, and after
\* resume, 250000 us, stop it reads 750000.
C19_ElapsedIsTimeRunning ==
  (obs.what = "elapsedMicros" /\ ClockExact) =>
    /\ obs.val = ran
    /\ (~sw.running /\ swHist.op = "stop" /\ swHist.pre.running
          /\ swHist.pre.totalUs = 0 /\ swHist.at - swHist.pre.startUs = 500000)
         => obs.val = 500000
    /\ (~sw.running /\ swHist.op = "stop" /\ swHist.pre.running
          /\ swHist.pre.totalUs = 500000 /\ swHist.at - swHist.pre.startUs = 250000)
         => obs.val = 750000

C19_Witness ==
  /\ obs.what = "elapsedMicros" /\ ClockExact /\ nSw = 4
  /\ swHist.op = "stop" /\ swHist.pre.running /\ swHist.pre.totalUs = 500000
  /\ ~sw.running /\ ran = 750000 /\ obs.val = 750000

\* what elapsedMicros() returns at the clock value behind the observation o
ElapsedMicrosAt(o) ==
  IF sw.running THEN Clamp(sw.totalUs + Clamp(o.clock - sw.startUs))
  ELSE sw.totalUs

StopwatchReads == {"elapsedMicros", "elapsedMillis", "elapsedSeconds", "isRunning"}

\* C20: elapsedMicros(), elapsedMillis(), elapsedSeconds() and isRunning(),
\* called any number of times in either state, leave the start timestamp,
\* the accumulated time and the running flag as they were; elapsedMillis()
\* and elapsedSeconds() are elapsedMicros() divided by 1000 and by 1000000,
\* and isRunning() is the running flag.
C20_ReadsArePure ==
  /\ [][obs'.what \in StopwatchReads => sw' = sw]_vars
  /\ [](/\ obs.what = "elapsedMicros" => obs.val = ElapsedMicrosAt(obs)
        /\ obs.what = "elapsedMillis" => obs.val = TruncDiv(ElapsedMicrosAt(obs), 1000)
        /\ obs.what = "elapsedSeconds" => obs.val = TruncDiv(ElapsedMicrosAt(obs), 1000000)
        /\ obs.what = "isRunning" => obs.val = sw.running)

\* one second into a running segment elapsedSeconds() returns 1
C20_Witness ==
  /\ obs.what = "elapsedSeconds" /\ sw.running
  /\ obs.clock - sw.startUs = 1000000 /\ obs.val = 1

\* ------------------------------------------------------------------------
\* formatTimeTo
\* ------------------------------------------------------------------------
\* the C string in an array: the bytes before the first terminator
RECURSIVE CString(_)
CString(b) ==
  IF b = <<>> \/ Head(b) = "NUL" THEN <<>> ELSE <<Head(b)>> \o CString(Tail(b))

IsDigitChar(c) == \E d \in 0 .. 9 : DigitChar(d) = c
CharDigit(c) == CHOOSE d \in 0 .. 9 : DigitChar(d) = c
AllDigits(t) == \A i \in 1 .. Len(t) : IsDigitChar(t[i])
\* the number written by up to three digit characters
RECURSIVE SmallNumber(_)
SmallNumber(t) ==
  IF t = <<>> THEN 0
  ELSE SmallNumber(SubSeq(t, 1, Len(t) - 1)) * 10 + CharDigit(t[Len(t)])

RECURSIVE NatDigits(_)
NatDigits(n) ==
  IF n < 10 THEN <<n>> ELSE Append(NatDigits(n \div 10), n % 10)

\* d * k + c on digit strings, by schoolbook multiplication with carry
RECURSIVE MulAddDigits(_, _, _)
MulAddDigits(d, k, c) ==
  IF d = <<>>
  THEN IF c = 0 THEN <<>> ELSE NatDigits(c)
  ELSE LET v == d[Len(d)] * k + c
       IN Append(MulAddDigits(SubSeq(d, 1, Len(d) - 1), k, v \div 10), v % 10)
MulAdd(d, k, c) == Strip(MulAddDigits(d, k, c))

\* |microseconds| / 1000 truncated: the decimal digits without the last three
WholeMillis(mag) ==
  IF Len(mag) <= 3 THEN <<0>> ELSE SubSeq(mag, 1, Len(mag) - 3)

\* the text after an optional leading '-'
Unsigned(t) == IF t # <<>> /\ Head(t) = "-" THEN Tail(t) ELSE t

\* t is H:MM:SS.mmm for the millisecond count totalMs
RendersMillis(t, totalMs) ==
  LET n == Len(t)
  IN /\ n >= 11
     /\ t[n - 9] = ":" /\ t[n - 6] = ":" /\ t[n - 3] = "."
     /\ LET h == SubSeq(t, 1, n - 10)
            mm == SubSeq(t, n - 8, n - 7)
            ss == SubSeq(t, n - 5, n - 4)
            ms == SubSeq(t, n - 2, n)
        IN /\ AllDigits(h) /\ AllDigits(mm) /\ AllDigits(ss) /\ AllDigits(ms)
           /\ (Len(h) > 1 => h[1] # "0")
           /\ SmallNumber(mm) < 60
           /\ SmallNumber(ss) < 60
           /\ MulAdd(MulAdd(MulAdd([i \in 1 .. Len(h) |-> CharDigit(h[i])],
                                   60, SmallNumber(mm)),
                            60, SmallNumber(ss)),
                     1000, SmallNumber(ms)) = totalMs

FormatOk == fmtStatus.code = "OK"

C22_SignOfInput ==
  FormatOk =>
    LET t == CString(fmtBuf)
    IN /\ (t[1] = "-") <=> fmtArg.neg
       /\ (fmtArg = Neg(<<1>>) =>
             t = <<"-", "0", ":", "0", "0", ":", "0", "0", ".", "0", "0", "0">>)
       /\ (fmtArg = Neg(<<1, 2, 3, 4, 5, 6, 7>>) =>
             t = <<"-", "0", ":", "0", "0", ":", "0", "1", ".", "2", "3", "4">>)

\* -1 us has been rendered with its sign
C22_Witness ==
  /\ FormatOk
  /\ fmtArg = Neg(<<1>>)
  /\ Head(CString(fmtBuf)) = "-"

\* C23: formatTimeTo(INT64_MIN) renders the magnitude 2^63 us, that is
\* 9223372036854775 ms: "-2562047788:00:54.775".
C23_MinValue ==
  (FormatOk /\ fmtArg = Int64Min) =>
    /\ fmtArg.mag = <<9, 2, 2, 3, 3, 7, 2, 0, 3, 6, 8, 5, 4, 7, 7, 5, 8, 0, 8>>
    /\ CString(fmtBuf) =
         <<"-", "2", "5", "6", "2", "0", "4", "7", "7", "8", "8", ":",
           "0", "0", ":", "5", "4", ".", "7", "7", "5">>
    /\ RendersMillis(Tail(CString(fmtBuf)),
                     <<9, 2, 2, 3, 3, 7, 2, 0, 3, 6, 8, 5, 4, 7, 7, 5>>)

\* INT64_MIN has been formatted into a buffer of exactly the fixed size
C23_Witness ==
  /\ FormatOk
  /\ fmtArg = Int64Min
  /\ fmtLen = TIME_FORMAT_BUFFER_SIZE
  /\ Len(CString(fmtBuf)) = 21

FormatCalled == fmtStatus # NoStatus

\* C24: with a null buffer or a capacity of 0, formatTimeTo fails with
\* INVALID_CONFIG and writes no byte.
C24_NoBuffer ==
  (FormatCalled /\ (fmtNull \/ fmtLen = 0)) =>
    /\ fmtStatus.code = "INVALID_CONFIG"
    /\ fmtBuf = FreshBuffer(fmtLen)

\* a call with a valid pointer and capacity 0 has been refused
C24_Witness ==
  /\ FormatCalled
  /\ ~fmtNull
  /\ fmtLen = 0
  /\ fmtStatus.code = "INVALID_CONFIG"

\* C25: with a buffer of 1 .. TIME_FORMAT_BUFFER_SIZE - 1 bytes formatTimeTo
\* fails with INVALID_CONFIG for every value, the detail is
\* TIME_FORMAT_BUFFER_SIZE, the first byte is a terminator and no other
\* byte is written.
C25_TooSmall ==
  (FormatCalled /\ ~fmtNull /\ fmtLen >= 1 /\ fmtLen < TIME_FORMAT_BUFFER_SIZE) =>
    /\ fmtStatus.code = "INVALID_CONFIG"
    /\ fmtStatus.detail = TIME_FORMAT_BUFFER_SIZE
    /\ fmtBuf[1] = "NUL"
    /\ \A i \in 2 .. Len(fmtBuf) : fmtBuf[i] = "untouched"

\* INT64_MIN has been refused with a buffer one byte short, which would
\* have held its text
C25_Witness ==
  /\ FormatCalled
  /\ ~fmtNull
  /\ fmtArg = Int64Min
  /\ fmtLen = TIME_FORMAT_BUFFER_SIZE - 1
  /\ fmtStatus.detail = TIME_FORMAT_BUFFER_SIZE

\* C26: with a capacity of at least TIME_FORMAT_BUFFER_SIZE formatTimeTo
\* never reports a buffer too small, for any value: when snprintf reports
\* no error the call succeeds, the text and its terminator take at most
\* TIME_FORMAT_BUFFER_SIZE bytes, and the byte behind the capacity is never
\* written.
C26_FixedSizeSuffices ==
  (FormatCalled /\ ~fmtNull /\ fmtLen >= TIME_FORMAT_BUFFER_SIZE) =>
    /\ fmtStatus.code # "INVALID_CONFIG"
    /\ fmtBuf[fmtLen + 1] = "untouched"
    /\ ~fmtFail =>
         /\ FormatOk
         /\ Len(CString(fmtBuf)) + 1 <= TIME_FORMAT_BUFFER_SIZE

\* the longest text, that of INT64_MIN, has been written into a buffer of
\* exactly the fixed size
C26_Witness ==
  /\ FormatOk
  /\ ~fmtFail
  /\ fmtArg = Int64Min
  /\ fmtLen = TIME_FORMAT_BUFFER_SIZE
  /\ fmtBuf[22] = "NUL"
  /\ fmtBuf[21] = "5"

\* ------------------------------------------------------------------------
\* Truncation toward zero
\* ------------------------------------------------------------------------
\* e microseconds in whole units of the scale, the fraction dropped
TowardZero(e, scale) ==
  IF e < 0 THEN 0 - ((0 - e) \div scale) ELSE e \div scale

\* C27: the conversions to milliseconds and seconds truncate toward zero: a
\* read of ElapsedMillis64 / ElapsedSeconds64 whose elapsed time e is
\* negative returns -(|e| / scale), so a negative elapsed time of less than
\* one unit reads 0; millis64() and seconds64() divide the clock value the
\* same way.
C27_TruncatesTowardZero ==
  /\ (obs.what = "read" /\ timer.kind \in {"millis", "seconds"}) =>
       obs.val = TowardZero(Clamp(obs.clock - timer.us), Scale(timer.kind))
  /\ obs.what = "millis64" => obs.val = TowardZero(obs.clock, 1000)
  /\ obs.what = "seconds64" => obs.val = TowardZero(obs.clock, 1000000)

\* an ElapsedMillis64 whose baseline lies 985 us ahead of the clock has
\* been read as 0
C27_Witness ==
  /\ obs.what = "read"
  /\ timer.kind = "millis"
  /\ obs.clock - timer.us = 0 - 985
  /\ obs.val = 0

\* ------------------------------------------------------------------------
\* YourLib
\* ------------------------------------------------------------------------
\* C28: begin(config) returns INVALID_CONFIG when config.intervalMs is 0 and
\* Ok otherwise; after Ok the object is initialized with tick count and
\* last-tick timestamp 0; after end() it is not initialized, and a begin()
\* that follows is answered like any other.
C28_BeginAndEnd ==
  /\ libHist.op = "begin" =>
       /\ libHist.status.code = (IF libHist.arg = 0 THEN "INVALID_CONFIG" ELSE "OK")
       /\ libHist.status.code = "OK" =>
            /\ lib.initialized
            /\ lib.tickCount = 0
            /\ lib.lastTickMs = 0
  /\ libHist.op = "end" => ~lib.initialized

\* an object that had acted and was ended has been begun again
C28_Witness ==
  /\ libHist.op = "begin"
  /\ libHist.prevOp = "end"
  /\ libHist.since >= 0
  /\ libHist.status.code = "OK"
  /\ lib.initialized
  /\ lib.tickCount = 0

\* C29: tick(now_ms) changes neither the tick count, the next-tick nor the
\* last-tick timestamp (nor anything else) while the object is not
\* initialized, before begin() succeeded or after end(); end() on an object
\* that is not initialized changes nothing, and after end() the object is
\* not initialized.
C29_TickNeedsBegin ==
  /\ [][(libHist'.op \in {"tick", "end"} /\ ~lib.initialized) =>
          (lib' = lib /\ led' = led)]_vars
  /\ [](libHist.op = "end" => ~lib.initialized)

\* tick() has been called on an object that had acted and was ended, at a
\* time when its deadline had passed
C29_Witness ==
  /\ libHist.op = "tick"
  /\ ~lib.initialized
  /\ lib.tickCount > 0
  /\ Int32(Wrap32(millis - lib.nextMs)) >= 0
  /\ ~libHist.acted

\* the last call was a tick() of an initialized object whose interval the
\* signed delta can tell
TickedInSession ==
  /\ libHist.op = "tick"
  /\ lib.initialized
  /\ lib.config.intervalMs < MsHalf

\* C30: after begin() succeeded with intervalMs < 2^31, whatever the clock
\* reads at begin() and across the rollover of millis(), a tick() performs
\* the action when it is the first since begin() or when at least
\* intervalMs have passed since the action before, and two actions are
\* never less than intervalMs apart.
C30_TicksOnSchedule ==
  TickedInSession =>
    /\ (libHist.since = -1 \/ libHist.since >= lib.config.intervalMs)
         => libHist.acted
    /\ (libHist.acted /\ libHist.since # -1)
         => libHist.since >= lib.config.intervalMs

\* ------------------------------------------------------------------------
\* Stopwatch invariants
\* ------------------------------------------------------------------------
\* C31: in every reachable state in which the Stopwatch is not running the
\* start timestamp is 0, and the accumulated time is the time measured: the
\* clock time spent running since the most recent start() or reset(), read
\* from a clock that missed no wrap.
C31_StoppedState ==
  ~sw.running =>
    /\ sw.startUs = 0
    /\ ClockExact => sw.totalUs = ran

\* a Stopwatch that was started after time had passed has been stopped
\* with time measured
C31_Witness ==
  /\ ~sw.running
  /\ swHist.op = "stop"
  /\ swHist.pre.running
  /\ swHist.pre.startUs > 0
  /\ sw.startUs = 0
  /\ ClockExact
  /\ ran > 0
  /\ sw.totalUs = ran

\* ------------------------------------------------------------------------
\* formatTimeTo: the internal error
\* ------------------------------------------------------------------------
\* C32: formatTimeTo returns INTERNAL_ERROR only when the snprintf it called
\* reported a negative result (so only for a buffer that passed both entry
\* checks), and then the first byte of the buffer is a terminator; every
\* call in which snprintf reports no error returns another status.
C32_InternalErrorOnlyFromSnprintf ==
  /\ fmtStatus.code = "INTERNAL_ERROR" =>
       /\ fmtFail
       /\ ~fmtNull
       /\ fmtLen >= TIME_FORMAT_BUFFER_SIZE
       /\ fmtStatus.detail < 0
       /\ fmtBuf[1] = "NUL"
       /\ fmtBuf[fmtLen + 1] = "untouched"
  /\ (FormatCalled /\ ~fmtFail) => fmtStatus.code \in {"OK", "INVALID_CONFIG"}

\* snprintf has reported an error while INT64_MIN was formatted
C32_Witness ==
  /\ fmtStatus.code = "INTERNAL_ERROR"
  /\ fmtFail
  /\ fmtArg = Int64Min
  /\ fmtBuf[1] = "NUL"

\* ------------------------------------------------------------------------
\* micros64Impl without the polling precondition
\* ------------------------------------------------------------------------
\* C33: on the wrap-tracked path the values micros64() produces never
\* decrease from one invocation to the next, whatever the hardware counter
\* reads (also after gaps of a wrap period and more, when wraps are
\* missed): a reading smaller than the last adds a whole 2^TickBits to the
\* high accumulator, more than the reading dropped by.
C33_NonDecreasingAlways ==
  [][/\ lastRet' >= lastRet
     /\ \A c \in Contexts :
          (pc[c] = "compare" /\ pc'[c] = "store" /\ nowv[c] < last)
            => (high' = high + TickSpan /\ high' + nowv[c] > high + last)]_vars

\* after a gap of a wrap period or more, a reading smaller than the last
\* has been composed into a value that lags the true time
C33_Witness ==
  /\ ~gapOK
  /\ wrapped
  /\ pc[0] = "interrupts"
  /\ nowv[0] < TickSpan - 1
  /\ lastRet < hwTime
  /\ lastRet >= TickSpan

\* C34: on the wrap-tracked path every invocation of micros64() returns
\* with interrupts enabled, also when it was entered with interrupts
\* disabled, from a handler whose entry masked them or inside a critical
\* section of the sketch: the flag found on entry is not restored.
C34_ReturnsWithInterruptsEnabled ==
  [][\A c \in Contexts :
       (pc[c] = "interrupts" /\ pc'[c] # "interrupts") => intEnabled']_vars

\* a handler entered with interrupts masked has called micros64() and has
\* them enabled with only its return left
C34_Witness ==
  /\ depth = 1
  /\ pc[1] = "return"
  /\ ~csEntries[1]
  /\ intEnabled

\* the clock value most recently returned to the sketch: the native counter
\* itself, or what the statics of the wrap-tracked path last composed; no
\* later call returns less
LatestClock ==
  IF platform = "ESP32"
  THEN [ret |-> hwTime, last |-> last, high |-> high]
  ELSE [ret |-> ToInt64(Compose(high, last)), last |-> last, high |-> high]

\* what elapsedMicros() yields at that clock value
ElapsedAtLatest == elapsedMicros(sw, LatestClock)

\* C35: with the clock non-decreasing from call to call, elapsedMicros() is
\* never negative; from one clock value to the next it does not change
\* while the Stopwatch stays stopped and does not decrease while it runs or
\* is stopped or resumed, as long as the step is not a start() or reset().
C35_ElapsedMonotone ==
  /\ [](/\ ElapsedAtLatest >= 0
        /\ obs.what = "elapsedMicros" => obs.val >= 0)
  /\ [][(nSw' # nSw /\ swHist'.op \in {"start", "reset"})
          \/ (/\ ElapsedAtLatest' >= ElapsedAtLatest
              /\ (~sw.running /\ ~sw'.running) => ElapsedAtLatest' = ElapsedAtLatest
              /\ obs'.what = "elapsedMicros" => obs'.val = ElapsedAtLatest')]_vars

\* a resumed Stopwatch has been read after time passed: more than it had
\* accumulated when it was resumed
C35_Witness ==
  /\ sw.running
  /\ swHist.op = "resume"
  /\ sw.totalUs > 0
  /\ obs.what = "elapsedMicros"
  /\ obs.val > sw.totalUs
  /\ obs.val = ElapsedAtLatest

\* ------------------------------------------------------------------------
\* Binary + and - of the elapsed timers
\* ------------------------------------------------------------------------
\* the signed number of units by which the last binary operator shifted
BinaryUnits(h) == IF h.op = "binPlus" THEN h.v ELSE -h.v

\* the last operation was c = t + d or c = t - d, operand and result were
\* then read at one clock value, and neither the scaling, the baseline
\* arithmetic nor the two reads saturate
BinaryThenRead ==
  /\ obs.what = "readBoth"
  /\ hist.op \in {"binPlus", "binMinus"}
  /\ MulFits(hist.v, Scale(timer.kind))
  /\ (timer.us - BinaryUnits(hist) * Scale(timer.kind)) \in Int64
  /\ (obs.clock - timer.us) \in Int64
  /\ (obs.clock - copy.us) \in Int64

\* what `+= d` / `-= d` would have made of a copy of the operand
ShiftedCopy ==
  IF hist.op = "binPlus"
  THEN ElapsedPlusAssign(timer.kind, ElapsedCopyCtor(timer).us, hist.v)
  ELSE ElapsedMinusAssign(timer.kind, ElapsedCopyCtor(timer).us, hist.v)

\* the result's elapsed microsecond count lies on the other side of zero
\* than the operand's, which is not a whole number of units
ResultCrossesZero ==
  LET before == obs.clock - timer.us
      after == obs.clock - copy.us
  IN /\ (before < 0 /\ after > 0) \/ (before > 0 /\ after < 0)
     /\ before % Scale(timer.kind) # 0

\* C36 as claimed: `t + d` and `t - d` leave the operand's baseline
\* unchanged and return a timer of the same type whose baseline is what
\* `+= d` / `-= d` would have produced on a copy; absent saturation the
\* result reads, at the same clock value, exactly d units more / less than
\* the operand.
C36_BinaryExactInUnits ==
  /\ hist.op \in {"binPlus", "binMinus"} =>
       /\ timer.us = hist.was
       /\ copy.kind = timer.kind
       /\ copy.us = ShiftedCopy
  /\ BinaryThenRead => obs.arg = obs.val + BinaryUnits(hist)

\* C36 amended: as above, but the result reads exactly d units more / less
\* than the operand unless its elapsed microsecond count lies across zero
\* from the operand's while that is not a whole number of units: then,
\* both reads truncating toward zero, the readings differ by one unit less.
C36_BinaryShiftsBaseline ==
  /\ hist.op \in {"binPlus", "binMinus"} =>
       /\ timer.us = hist.was
       /\ copy.kind = timer.kind
       /\ copy.us = ShiftedCopy
  /\ BinaryThenRead =>
       LET d == BinaryUnits(hist)
       IN /\ copy.us = timer.us - d * Scale(timer.kind)
          /\ ~ResultCrossesZero => obs.arg = obs.val + d
          /\ ResultCrossesZero => obs.arg = obs.val + d - (IF d > 0 THEN 1 ELSE -1)

\* a seconds timer a second and a half after construction: c = t + 1
\* reads 2 where t reads 1
C36_Witness ==
  /\ BinaryThenRead /\ ~ResultCrossesZero
  /\ timer.kind = "seconds" /\ hist.op = "binPlus" /\ hist.v = 1
  /\ obs.clock - timer.us = 1500000
  /\ obs.val = 1 /\ obs.arg = 2

\* ------------------------------------------------------------------------
\* C37: for every pair of inputs the portable fallback of saturatingAdd,
\* saturatingSub and saturatingMul returns what the overflow-builtin
\* implementation returns, and on the way it evaluates no signed sum,
\* difference or product outside the int64 range, divides by no zero and
\* never divides INT64_MIN by -1.
\* ------------------------------------------------------------------------
DefinedDivision(d) == d[2] # 0 /\ ~(d[1] = INT64_MIN_VALUE /\ d[2] = -1)

C37_PortableMatchesBuiltin ==
  /\ satOp = "add" =>
        /\ saturatingAddPortable(satA, satB) = saturatingAddBuiltin(satA, satB)
        /\ satRes = saturatingAddBuiltin(satA, satB)
        /\ saturatingAddPortableEvals(satA, satB) \subseteq Int64
  /\ satOp = "sub" =>
        /\ saturatingSubPortable(satA, satB) = saturatingSubBuiltin(satA, satB)
        /\ satRes = saturatingSubBuiltin(satA, satB)
        /\ saturatingSubPortableEvals(satA, satB) \subseteq Int64
  /\ satOp = "mul" =>
        /\ saturatingMulPortable(satA, satB) = saturatingMulBuiltin(satA, satB)
        /\ satRes = saturatingMulBuiltin(satA, satB)
        /\ saturatingMulPortableEvals(satA, satB) \subseteq Int64
        /\ \A d \in saturatingMulPortableDivs(satA, satB) : DefinedDivision(d)

C37_Witness ==
  /\ ~gnuc /\ satOp = "mul"
  /\ satA = 536870912 /\ satB = 2
  /\ saturatingMulPortableDivs(satA, satB) = {<<INT64_MAX_VALUE, 2>>}
  /\ satRes = INT64_MAX_VALUE

\* ------------------------------------------------------------------------
\* C38: a begin() handed intervalMs == 0 fails and changes nothing: the
\* object keeps its initialized flag (set or clear), its configuration,
\* next-tick time, tick count and last-tick time, and the LED pin is not
\* touched.
\* ------------------------------------------------------------------------
C38_FailingBeginChangesNothing ==
  [][(libHist'.op = "begin" /\ libHist'.arg = 0)
       => /\ libHist'.status.code = "INVALID_CONFIG"
          /\ lib'.initialized = lib.initialized
          /\ lib'.config = lib.config
          /\ lib'.nextMs = lib.nextMs
          /\ lib'.tickCount = lib.tickCount
          /\ lib'.lastTickMs = lib.lastTickMs
          /\ led' = led]_vars

C38_Witness ==
  /\ libHist.op = "begin" /\ libHist.arg = 0
  /\ libHist.prevOp = "tick"
  /\ libHist.status.code = "INVALID_CONFIG"
  /\ lib.initialized
  /\ lib.config = Config(-1, MsHalf - 1)
  /\ lib.tickCount > 1 /\ lib.lastTickMs > 0 /\ lib.nextMs > 0

\* ------------------------------------------------------------------------
\* C39: on the wrap-tracked path the low TickBits bits of the high
\* accumulator are zero in every reachable state: it starts at 0 and a step
\* either leaves it alone or adds 2^TickBits to it.  Hence wherever an
\* invocation is about to compose, high | now is the sum high + now for
\* every reading the counter can return, and that sum is what it composes.
\* ------------------------------------------------------------------------
C39_OrIsSum ==
  /\ [](/\ high % TickSpan = 0
        /\ (\E c \in Contexts : pc[c] = "compose")
             => \A now \in 0 .. TickSpan - 1 : Compose(high, now) = high + now
        /\ \A c \in Contexts : pc[c] = "interrupts" => full[c] = high + nowv[c])
  /\ [][high' = high \/ high' = high + TickSpan]_vars

C39_Witness ==
  /\ pc[0] = "interrupts"
  /\ high = 2 * TickSpan
  /\ nowv[0] = TickSpan - 1
  /\ full[0] = 3 * TickSpan - 1

====
